---- MODULE Spec2Model ----
(***************************************************************************)
(* coordinat-auto-login: the monitoring loop of App (src/src/app.ts), the  *)
(* two-probe ConnectivityChecker, the silent mode of Logger, the browser   *)
(* lifecycle of PortalAuthenticator / BrowserManager and the shutdown      *)
(* handler.  One state per suspension point (await) of the async code:     *)
(* JavaScript runs the code between two awaits atomically.  BrowserManager *)
(* and FormService are also driven on their own (BrowserSpec, FormSpec).   *)
(***************************************************************************)
EXTENDS Integers, FiniteSets, Sequences, TLC

(* ---------- bounds of the model ---------- *)
\* number of cycles of the monitoring loop that are explored
MaxCycles == 6
\* number of cycles explored of a run that consists of failure cycles only
MaxRun == 10
\* number of faults injected into one authenticate() call, and of queries
\* that reject in one fillAndSubmitForm call
MaxFaults == 1
\* longest time, in ticks, the work of one cycle takes
MaxWork == 5
\* number of launchBrowser / closeBrowser calls made on a BrowserManager
MaxCalls == 12
\* classifications made by the monitor loop of src/index.ts
MaxLegacyCycles == 5
\* callers that are inside closeBrowser at the same time
MaxClosers == 2
\* input elements of the page given to fillAndSubmitForm
MaxInputs == 2
\* page events delivered during one authenticate() call
MaxEvents == 1

(* ---------- program constants ---------- *)
CONSECUTIVE_CHECKS_FOR_SILENT == 5
MAX_CONNECTION_ATTEMPTS == 3
\* submitSelectors has twelve entries
NumSubmitSelectors == 12
\* alternativeTestUrls has five entries
NumTestUrls == 5
\* AppConfig.LOGIN_INTERVAL_MS, a positive number of ticks
LOGIN_INTERVAL_MS == 3

ONLINE == "ONLINE"
OFFLINE == "OFFLINE"
CAPTIVE_PORTAL == "CAPTIVE_PORTAL"
ConnectivityStatus == {ONLINE, OFFLINE, CAPTIVE_PORTAL}

(* ---------- probe outcomes (inputs of the classifier) ---------- *)
\* status codes a probe can answer with: the 2xx/3xx range, its two edges
\* (200, 399), the no-content code, and codes outside the range
ProbeStatuses == {200, 204, 302, 399, 400, 500}

\* An HTTP client never delivers a body with a 204 answer; every other
\* status comes with or without one.
PrimaryResponses ==
  { [kind |-> "response", status |-> s, bodyEmpty |-> e] :
      s \in ProbeStatuses, e \in BOOLEAN } \
  { [kind |-> "response", status |-> 204, bodyEmpty |-> FALSE] }

\* axios.get rejects: ECONNABORTED, no response received (err.request),
\* request set-up error, or a value that is not an AxiosError
PrimaryErrorKinds == {"timeout", "network", "setup", "nonAxios"}

PrimaryErrors ==
  { [kind |-> k, status |-> 0, bodyEmpty |-> TRUE] : k \in PrimaryErrorKinds }

PrimaryOutcomes == PrimaryResponses \cup PrimaryErrors

\* data of the backup answer: a string holding "Microsoft Connect Test",
\* another non-empty string, or a value that is empty / not a string
BackupData == {"marker", "other", "none"}

BackupResponses ==
  { [kind |-> "response", status |-> s, data |-> d] :
      s \in ProbeStatuses, d \in BackupData } \
  { [kind |-> "response", status |-> 204, data |-> d] : d \in {"marker", "other"} }

BackupErrors ==
  { [kind |-> k, status |-> 0, data |-> "none"] : k \in {"timeout", "network"} }

BackupOutcomes == BackupResponses \cup BackupErrors

NoProbe == [kind |-> "notIssued"]

(* ---------- ConnectivityChecker ---------- *)
\* tryBackupCheck without its catch: a rejected request propagates
BackupVerdictNoCatch(b) ==
  IF b.kind = "response"
    THEN IF b.status >= 200 /\ b.status < 300 /\ b.data = "marker"
           THEN [kind |-> "return", status |-> ONLINE]
           ELSE [kind |-> "return", status |-> CAPTIVE_PORTAL]
    ELSE [kind |-> "throw", status |-> OFFLINE]

\* tryBackupCheck answering OFFLINE to a status outside 2xx/3xx
BackupVerdictOfflineOnBadStatus(b) ==
  IF b.kind = "response"
    THEN IF b.status >= 200 /\ b.status < 300 /\ b.data = "marker"
           THEN [kind |-> "return", status |-> ONLINE]
           ELSE IF b.status >= 200 /\ b.status < 400
                  THEN [kind |-> "return", status |-> CAPTIVE_PORTAL]
                  ELSE [kind |-> "return", status |-> OFFLINE]
    ELSE [kind |-> "return", status |-> OFFLINE]

\* tryBackupCheck: what the backup probe's outcome makes it return
BackupVerdict(b) ==
  IF b.kind = "response"
    THEN IF b.status >= 200 /\ b.status < 300 /\ b.data = "marker"
           THEN [kind |-> "return", status |-> ONLINE]
           ELSE [kind |-> "return", status |-> CAPTIVE_PORTAL]
    ELSE [kind |-> "return", status |-> OFFLINE]

\* the primary branch with the 204 test and the range test swapped
PrimaryVerdictRangeFirst(p) ==
  IF p.kind = "response"
    THEN IF p.status >= 200 /\ p.status < 400
           THEN [kind |-> "return", status |-> CAPTIVE_PORTAL]
           ELSE [kind |-> "backup", status |-> OFFLINE]
    ELSE [kind |-> "backup", status |-> OFFLINE]

\* checkConnectivityStatus up to the point where it either returns or
\* hands over to tryBackupCheck
PrimaryVerdict(p) ==
  IF p.kind = "response"
    THEN IF p.status = 204
           THEN [kind |-> "return", status |-> ONLINE]
           ELSE IF p.status >= 200 /\ p.status < 400
                  THEN [kind |-> "return", status |-> CAPTIVE_PORTAL]
                  ELSE [kind |-> "backup", status |-> OFFLINE]
    ELSE [kind |-> "backup", status |-> OFFLINE]

\* the log calls of the primary catch block that pass an error argument
PrimaryLogsError(p) == p.kind \in {"network", "setup", "nonAxios"}

\* the log call of the backup catch block passes backupErr
BackupLogsError(b) == b.kind # "response"

(* ---------- Logger ---------- *)
\* Logger.log: the value of silentMode after a call
LogSilent(silent, hasError) == IF hasError /\ silent THEN FALSE ELSE silent

(* ---------- state ---------- *)
VARIABLES
  pc,                            \* the await the monitoring loop is suspended in
  status,                        \* startMonitoring: let status
  connectionAttempts,            \* App.connectionAttempts
  successfulConnections,         \* App.successfulConnections
  consecutiveActiveConnections,  \* App.consecutiveActiveConnections
  silentMode,                    \* Logger.silentMode
  primary,                       \* outcome of the primary probe of this cycle
  backup,                        \* outcome of the backup probe of this cycle
  loopError,                     \* the value caught by the loop's catch
  browserInstance,               \* BrowserManager.browserInstance (0 is null)
  openBrowsers,                  \* launched browsers close() was not called on
  closing,                       \* the browser authenticate's closeBrowser closes
  success,                       \* authenticate: let success
  urlIdx,                        \* index into alternativeTestUrls
  portalUrlFound,                \* authenticate: portalUrlFound is not null
  spc,                           \* the await the shutdown handler is suspended in
  sClosing,                      \* the browser the handler's closeBrowser closes
  exited,                        \* the shutdown handler called process.exit(0)
  \* history variables, read by the properties only
  cycles,                        \* cycles started so far
  classified,                    \* this cycle's classification has returned
  prevStatus,                    \* the classification before this cycle's
  onlineRun,                     \* ONLINE classifications since the last other one
  succAtStart,                   \* successfulConnections when the cycle began
  errArgLogged,                  \* a log call of this cycle carried an error
  caught,                        \* the loop's catch ran in this cycle
  thrown,                        \* what rejected: "none", "injected", "probe"
  faults,                        \* phases of this authenticate() that failed
  \* App.init / startApp
  initialized,                   \* startApp: init() has returned true
  configLoaded,                  \* App.config is set
  authenticatorCreated,          \* App.portalAuthenticator is set
  \* calls in progress
  probesInFlight,                \* checkConnectivityStatus calls not yet returned
  authsInFlight,                 \* authenticate() calls not yet returned
  \* pacing of the loop, in ticks
  duration,                      \* startMonitoring: const duration
  sleepTime,                     \* startMonitoring: const sleepTime
  \* FormService.fillAndSubmitForm on its own
  fieldIdx,                      \* the field fillField is called for (0: none)
  formFieldsFound,               \* the fields whose flag was set to true
  selIdx,                        \* index into submitSelectors (0: no scan)
  clicked,                       \* el.click() ran on a submit control
  formResult,                    \* what fillAndSubmitForm returned
  \* BrowserManager on its own
  calls,                         \* launchBrowser / closeBrowser calls made
  replaced,                      \* the session held when launchBrowser was called
  lastCloseThrew,                \* close() rejected in the last closeBrowser, no launch since
  closeRejections,               \* closeBrowser calls that rejected to their caller
  \* more history variables, read by the properties only
  joinCalls,                     \* connectToWifi calls of this cycle
  authCalls,                     \* authenticate() calls of this cycle
  cooldowns,                     \* long pauses of this cycle
  failRun,                       \* failure cycles since the counter was last 0
  runJoins,                      \* connectToWifi calls of those cycles
  runAuths,                      \* authenticate() calls of those cycles
  attAtStart,                    \* connectionAttempts when the cycle began
  formSubmitted,                 \* authenticate: const formSubmitted
  consAtStart,                   \* consecutiveActiveConnections when the cycle began
  phases,                        \* authenticate: the phases entered, in order
  retryPaused,                   \* the handler made its 2 s pause after authenticate()
  \* the URL scan of authenticate on its own
  landing,                       \* authenticate: what the last page.goto led to
  page,                          \* the candidate whose landing the page shows (0: blank)
  navLog,                        \* the candidates navigated and what was logged of each
  \* the page fillAndSubmitForm works on
  dom,                           \* its input elements, in document order
  fieldLog,                      \* per field: selectors queried, element typed into
  queryFaultsLeft,               \* page.$ calls of fillField that will still reject
  \* a call of Logger.log
  logFrames,                     \* the invocations of log in progress, innermost last
  logCall,                       \* the arguments of the outermost call
  calledSilent,                  \* silentMode when the outermost call was made
  logEntries,                    \* the entries the call has written to the console
  logRecursions,                 \* invocations of log made by log during the call
  fileLines,                     \* entries the call has appended to the log file
  silentModeSpinner,             \* Logger.silentModeSpinner
  silentModeStartTime,           \* Logger.silentModeStartTime is set
  \* closeBrowser called by several callers at once
  closers,                       \* per caller: where its closeBrowser call is
  \* handleOnlineStatus
  stamped,                       \* lastSuccessTime was assigned in this cycle
  silentReturn,                  \* the handler found the logger silent in this cycle
  \* the callbacks registered with page.on
  pageEvents                     \* page events delivered in this authenticate()

appVars == <<status, connectionAttempts, successfulConnections,
             consecutiveActiveConnections, silentMode>>
probeVars == <<primary, backup>>
browserVars == <<browserInstance, openBrowsers, closing>>
authVars == <<success, urlIdx, portalUrlFound, faults>>
sigVars == <<spc, sClosing, exited>>
histVars == <<cycles, classified, prevStatus, onlineRun, succAtStart,
              errArgLogged, caught, thrown>>
initVars == <<initialized, configLoaded, authenticatorCreated>>
flightVars == <<probesInFlight, authsInFlight>>
paceVars == <<duration, sleepTime>>
bmVars == <<calls, replaced, lastCloseThrew, closeRejections>>
formVars == <<fieldIdx, formFieldsFound, selIdx, clicked, formResult>>
dispVars == <<joinCalls, authCalls, cooldowns, failRun, runJoins, runAuths,
              attAtStart>>
traceVars == <<consAtStart, phases, retryPaused>>
scanVars == <<landing, page, navLog>>
domVars == <<dom, fieldLog, queryFaultsLeft>>
eventVars == <<pageEvents>>
closeVars == <<closers>>
logVars == <<logFrames, logCall, calledSilent, logEntries, logRecursions,
             fileLines, silentModeSpinner, silentModeStartTime>>
onlineVars == <<stamped, silentReturn>>

auxVars == <<initVars, flightVars, paceVars, formVars, bmVars, dispVars,
             traceVars, scanVars, domVars, eventVars, onlineVars, closeVars,
             logVars, formSubmitted>>
vars == <<pc, appVars, probeVars, loopError, browserVars, authVars, sigVars,
          histVars, auxVars>>

\* the callers of the concurrent closeBrowser calls: authenticate's
\* finally block and the shutdown handlers
Closers == 1..MaxClosers

\* no call of Logger.log has been made
NoLogCall == [message |-> "", error |-> "undefined", level |-> "INFO"]

\* no navigation has settled yet
NoLanding == [kind |-> "none"]

BrowserIds == 1..3
\* values a rejected await can carry: an Error object, or nothing at all
ErrorValues == {"Error", "undefined"}
Truthy(e) == e # "undefined"

\* the fields of an App (and of its collaborators) after construction
Constructed ==
  /\ status = OFFLINE
  /\ connectionAttempts = 0
  /\ successfulConnections = 0
  /\ consecutiveActiveConnections = 0
  /\ silentMode = FALSE
  /\ primary = NoProbe
  /\ backup = NoProbe
  /\ loopError = "undefined"
  /\ browserInstance = 0
  /\ openBrowsers = {}
  /\ closing = 0
  /\ success = FALSE
  /\ urlIdx = 0
  /\ portalUrlFound = FALSE
  /\ spc = "idle"
  /\ sClosing = 0
  /\ exited = FALSE
  /\ cycles = 0
  /\ classified = FALSE
  /\ prevStatus = "NONE"
  /\ onlineRun = 0
  /\ succAtStart = 0
  /\ errArgLogged = FALSE
  /\ caught = FALSE
  /\ thrown = "none"
  /\ faults = {}
  /\ initialized = FALSE
  /\ configLoaded = FALSE
  /\ authenticatorCreated = FALSE
  /\ probesInFlight = 0
  /\ authsInFlight = 0
  /\ duration = 0
  /\ sleepTime = 0
  /\ fieldIdx = 0
  /\ formFieldsFound = {}
  /\ selIdx = 0
  /\ clicked = FALSE
  /\ formResult = "none"
  /\ calls = 0
  /\ replaced = 0
  /\ lastCloseThrew = FALSE
  /\ closeRejections = 0
  /\ joinCalls = 0
  /\ authCalls = 0
  /\ cooldowns = 0
  /\ failRun = 0
  /\ runJoins = 0
  /\ runAuths = 0
  /\ attAtStart = 0
  /\ formSubmitted = FALSE
  /\ consAtStart = 0
  /\ phases = <<>>
  /\ retryPaused = FALSE
  /\ landing = NoLanding
  /\ page = 0
  /\ navLog = <<>>
  /\ dom = <<>>
  /\ fieldLog = <<>>
  /\ pageEvents = 0
  /\ logFrames = <<>>
  /\ logCall = NoLogCall
  /\ calledSilent = FALSE
  /\ logEntries = <<>>
  /\ logRecursions = 0
  /\ fileLines = 0
  /\ silentModeSpinner = "null"
  /\ silentModeStartTime = FALSE
  /\ closers = [c \in Closers |-> [at |-> "idle", target |-> 0]]
  /\ stamped = FALSE
  /\ silentReturn = FALSE

\* startApp has constructed the App and calls init(); or a caller other than
\* startApp calls startMonitoring on an App it has only constructed
Init ==
  /\ pc \in {"app_init", "start_monitoring"}
  /\ Constructed
  /\ queryFaultsLeft = 0

(* ---------- startApp, App.init ---------- *)
\* how init() can end: every step succeeded; wifi.init threw, which
\* WifiManager.init catches and logs, so that init() goes on as if it had
\* succeeded; loadOrPromptConfig rejected before this.config was assigned;
\* or a later step threw (the log line that reads
\* formData.idnumber.substring) after config and authenticator were set
InitOutcomes == {"ok", "wifiFailed", "configFailed", "lateFailed"}

\* the control points before the loop, and the two ways out of them
PreLoopPcs == {"app_init", "init_returned", "start_monitoring", "sm_returned",
               "exit1"}

\* a startApp that calls startMonitoring whatever init() returned
AfterInitUnchecked(ok) == "start_monitoring"

\* startApp: if (initialized) startMonitoring() else process.exit(1)
AfterInit(ok) == IF ok THEN "start_monitoring" ELSE "exit1"

\* startMonitoring: if (!this.config || !this.portalAuthenticator)
Uninitialized(config, authenticator) == ~config \/ ~authenticator

\* App.init runs to its return: true from the try block, false from catch
AppInit ==
  /\ pc = "app_init"
  /\ \E o \in InitOutcomes :
       /\ configLoaded' = (o # "configFailed")
       /\ authenticatorCreated' = (o # "configFailed")
       /\ initialized' = (o \in {"ok", "wifiFailed"})
  /\ pc' = "init_returned"
  /\ UNCHANGED <<logVars, closeVars, onlineVars, eventVars, domVars, scanVars, traceVars, appVars, probeVars, loopError, browserVars, authVars, sigVars,
                 histVars, flightVars, paceVars, formVars, bmVars, dispVars,
                 formSubmitted>>

\* startApp branches on what init() returned
StartAppBranch ==
  /\ pc = "init_returned"
  /\ pc' = AfterInit(initialized)
  /\ UNCHANGED <<appVars, probeVars, loopError, browserVars, authVars, sigVars,
                 histVars, auxVars>>

\* startMonitoring up to the loop: return on an App that is not
\* initialized; else install the signal handlers, disconnect and wait 3 s
StartMonitoring ==
  /\ pc = "start_monitoring"
  /\ pc' = IF Uninitialized(configLoaded, authenticatorCreated)
             THEN "sm_returned"
             ELSE "init_wait"
  /\ UNCHANGED <<appVars, probeVars, loopError, browserVars, authVars, sigVars,
                 histVars, auxVars>>

(* ---------- App.startMonitoring ---------- *)
\* a loop whose handler call is not awaited: the next cycle may start
\* while authenticate() waits for the browser
LoopStartPointsNoAwait == {"init_wait", "sleeping", "a_launch"}

\* where the loop body starts from: the 3 s wait before the loop, or the
\* pacing sleep that ends the previous cycle
LoopStartPoints == {"init_wait", "sleeping"}

\* while (true): a new cycle starts after the initial wait or the pacing
\* sleep; it calls checkConnectivityStatus, which issues the primary probe
LoopTop ==
  /\ ~exited
  /\ pc \in LoopStartPoints
  /\ cycles < MaxCycles \/ (failRun = cycles /\ cycles < MaxRun)
  /\ pc' = "check"
  /\ status' = OFFLINE
  /\ cycles' = cycles + 1
  /\ classified' = FALSE
  /\ succAtStart' = successfulConnections
  /\ errArgLogged' = FALSE
  /\ caught' = FALSE
  /\ thrown' = "none"
  /\ prevStatus' = IF classified THEN status ELSE prevStatus
  /\ probesInFlight' = probesInFlight + 1
  /\ duration' = 0
  /\ sleepTime' = 0
  /\ joinCalls' = 0
  /\ authCalls' = 0
  /\ cooldowns' = 0
  /\ attAtStart' = connectionAttempts
  /\ consAtStart' = consecutiveActiveConnections
  /\ phases' = <<>>
  /\ retryPaused' = FALSE
  /\ pageEvents' = 0
  /\ stamped' = FALSE
  /\ silentReturn' = FALSE
  /\ UNCHANGED <<logVars, closeVars, domVars, scanVars, connectionAttempts, successfulConnections,
                 consecutiveActiveConnections, silentMode, probeVars, loopError,
                 browserVars, authVars, sigVars, onlineRun, initVars,
                 authsInFlight, formVars, bmVars, failRun, runJoins, runAuths,
                 formSubmitted>>

\* checkConnectivityStatus: the primary probe settles
CheckPrimary ==
  /\ ~exited
  /\ pc = "check"
  /\ \E p \in PrimaryOutcomes :
       LET v == PrimaryVerdict(p) IN
       /\ primary' = p
       /\ silentMode' = LogSilent(silentMode, PrimaryLogsError(p))
       /\ errArgLogged' = (errArgLogged \/ PrimaryLogsError(p))
       /\ IF v.kind = "return"
            THEN /\ status' = v.status
                 /\ classified' = TRUE
                 /\ probesInFlight' = probesInFlight - 1
                 /\ pc' = "switch"
            ELSE /\ pc' = "backup"
                 /\ UNCHANGED <<status, classified, probesInFlight>>
  /\ UNCHANGED <<logVars, closeVars, onlineVars, eventVars, domVars, scanVars, traceVars, initVars, authsInFlight, paceVars, formVars, bmVars, dispVars,
                 formSubmitted, connectionAttempts, successfulConnections,
                 consecutiveActiveConnections, backup, loopError, browserVars,
                 authVars, sigVars, cycles, prevStatus, onlineRun, succAtStart,
                 caught, thrown>>

\* tryBackupCheck: the backup probe settles
CheckBackup ==
  /\ ~exited
  /\ pc = "backup"
  /\ \E b \in BackupOutcomes :
       LET v == BackupVerdict(b) IN
       /\ backup' = b
       /\ silentMode' = LogSilent(silentMode, BackupLogsError(b))
       /\ errArgLogged' = (errArgLogged \/ BackupLogsError(b))
       /\ IF v.kind = "return"
            THEN /\ status' = v.status
                 /\ classified' = TRUE
                 /\ pc' = "switch"
                 /\ UNCHANGED <<loopError, thrown>>
            ELSE /\ pc' = "catch"
                 /\ loopError' = "Error"
                 /\ thrown' = "probe"
                 /\ UNCHANGED <<status, classified>>
  /\ probesInFlight' = probesInFlight - 1
  /\ UNCHANGED <<logVars, closeVars, onlineVars, eventVars, domVars, scanVars, traceVars, initVars, authsInFlight, paceVars, formVars, bmVars, dispVars,
                 formSubmitted, connectionAttempts, successfulConnections,
                 consecutiveActiveConnections, primary, browserVars, authVars,
                 sigVars, cycles, prevStatus, onlineRun, succAtStart, caught>>

(* ---------- App: status handlers ---------- *)
\* a switch that sends every failure to the portal handler
HandlerPortalForOffline(st) ==
  IF st = ONLINE THEN "handleOnlineStatus" ELSE "handleCaptivePortalStatus"

\* startMonitoring: switch (status), the default case included
Handler(st) ==
  IF st = ONLINE THEN "handleOnlineStatus"
  ELSE IF st = CAPTIVE_PORTAL THEN "handleCaptivePortalStatus"
  ELSE "handleOfflineStatus"

\* the failure handlers keeping the run of ONLINE checks
FailureCountersKeepRun(attempts, consecutive) ==
  [attempts |-> attempts + 1, consecutive |-> consecutive]

\* failure handlers that start the count again in every cycle
FailureCountersRestart(attempts, consecutive) ==
  [attempts |-> 1, consecutive |-> 0]

\* failure handlers that do not count the failure
FailureCountersNoCount(attempts, consecutive) ==
  [attempts |-> attempts, consecutive |-> 0]

\* handleCaptivePortalStatus / handleOfflineStatus: consecutive count reset,
\* connectionAttempts++
FailureCounters(attempts, consecutive) ==
  [attempts |-> attempts + 1, consecutive |-> 0]

\* handleOnlineStatus: successfulConnections++ (no test of the run length)
OnlineSuccesses(successes, consecutive) == successes + 1

\* silent mode entered after the first ONLINE check
ShouldEnterSilentAfterFirst(consecutive) == consecutive >= 1

\* the threshold test reached one check early
ShouldEnterSilentEarly(consecutive) ==
  consecutive + 1 >= CONSECUTIVE_CHECKS_FOR_SILENT

\* handleOnlineStatus: the test guarding enterSilentMode
ShouldEnterSilent(consecutive) ==
  consecutive >= CONSECUTIVE_CHECKS_FOR_SILENT

\* an escalation that pauses when the ceiling is reached
TooManyAttemptsAtCeiling(attempts) == attempts >= MAX_CONNECTION_ATTEMPTS

\* the escalation test of both failure handlers
TooManyAttempts(attempts) == attempts > MAX_CONNECTION_ATTEMPTS

\* a cooldown after which the count starts from 0 again
AttemptsAfterCooldownZero(attempts) == 0

\* a cooldown that leaves the failure counter where it was
AttemptsAfterCooldownKept(attempts) == attempts

\* both failure handlers, after the long pause: this.connectionAttempts = 1
AttemptsAfterCooldown(attempts) == 1

\* an ONLINE handler that leaves the failure counter as it is
AttemptsAfterOnlineKept(attempts) == attempts

\* handleOnlineStatus: this.connectionAttempts = 0
AttemptsAfterOnline(attempts) == 0

\* a handler that goes on although the logger is silent
SilentReturnNever(silent) == FALSE

\* handleOnlineStatus: if (this.logger.isSilent()) { updateSilentModeSpinner();
\* return; }
SilentReturn(silent) == silent

\* handleOnlineStatus, from the switch to its first await
OnlineEntry ==
  /\ ~exited
  /\ pc = "switch"
  /\ Handler(status) = "handleOnlineStatus"
  /\ primary' = NoProbe
  /\ backup' = NoProbe
  /\ onlineRun' = onlineRun + 1
  /\ silentReturn' = silentMode
  /\ IF SilentReturn(silentMode)
       THEN \* updateSilentModeSpinner(); return
            /\ pc' = "sleep"
            /\ UNCHANGED <<successfulConnections, consecutiveActiveConnections,
                           silentMode, errArgLogged, stamped>>
       ELSE IF connectionAttempts > 0
         THEN \* await log("Connection successful after ...")
              /\ pc' = "online_log"
              /\ UNCHANGED <<successfulConnections,
                             consecutiveActiveConnections, silentMode,
                             errArgLogged, stamped>>
         ELSE \* counters, then await log(status line, "Total successes: ...")
              /\ consecutiveActiveConnections' = consecutiveActiveConnections + 1
              /\ successfulConnections' =
                   OnlineSuccesses(successfulConnections,
                                   consecutiveActiveConnections)
              /\ silentMode' = LogSilent(silentMode, TRUE)
              /\ errArgLogged' = TRUE
              /\ stamped' = TRUE
              /\ pc' = "online_status_log"
  /\ failRun' = 0
  /\ runJoins' = 0
  /\ runAuths' = 0
  /\ UNCHANGED <<logVars, closeVars, eventVars, domVars, scanVars, traceVars, initVars, flightVars, paceVars, formVars, bmVars, formSubmitted, joinCalls, authCalls, cooldowns, attAtStart, status, connectionAttempts, loopError, browserVars, authVars,
                 sigVars, cycles, classified, prevStatus, succAtStart, caught,
                 thrown>>

\* handleOnlineStatus after the "Connection successful" log
OnlineReset ==
  /\ ~exited
  /\ pc = "online_log"
  /\ connectionAttempts' = AttemptsAfterOnline(connectionAttempts)
  /\ consecutiveActiveConnections' = consecutiveActiveConnections + 1
  /\ successfulConnections' =
       OnlineSuccesses(successfulConnections, consecutiveActiveConnections)
  /\ silentMode' = LogSilent(silentMode, TRUE)
  /\ errArgLogged' = TRUE
  /\ pc' = "online_status_log"
  /\ stamped' = TRUE
  /\ UNCHANGED <<logVars, closeVars, initVars, flightVars, paceVars, formVars, bmVars, dispVars,
                 traceVars, scanVars, domVars, eventVars, formSubmitted,
                 silentReturn, status, probeVars, loopError, browserVars, authVars, sigVars,
                 cycles, classified, prevStatus, onlineRun, succAtStart, caught,
                 thrown>>

\* handleOnlineStatus after the status log: enterSilentMode past the
\* threshold; the handler returns and the loop goes to its pacing sleep
OnlineFinish ==
  /\ ~exited
  /\ pc = "online_status_log"
  /\ silentMode' = IF ShouldEnterSilent(consecutiveActiveConnections)
                     THEN TRUE
                     ELSE silentMode
  /\ pc' = "sleep"
  /\ UNCHANGED <<auxVars, status, connectionAttempts, successfulConnections,
                 consecutiveActiveConnections, probeVars, loopError,
                 browserVars, authVars, sigVars, histVars>>

\* handleCaptivePortalStatus, from the switch to its first await
PortalEntry ==
  /\ ~exited
  /\ pc = "switch"
  /\ Handler(status) = "handleCaptivePortalStatus"
  /\ primary' = NoProbe
  /\ backup' = NoProbe
  /\ onlineRun' = 0
  /\ silentMode' = FALSE
  /\ LET c == FailureCounters(connectionAttempts, consecutiveActiveConnections)
     IN /\ connectionAttempts' = c.attempts
        /\ consecutiveActiveConnections' = c.consecutive
  /\ pc' = "portal_log"
  /\ failRun' = failRun + 1
  /\ UNCHANGED <<logVars, closeVars, onlineVars, eventVars, domVars, scanVars, traceVars, initVars, flightVars, paceVars, formVars, bmVars, formSubmitted, joinCalls, authCalls, cooldowns, runJoins, runAuths, attAtStart, status, successfulConnections, loopError, browserVars,
                 authVars, sigVars, cycles, classified, prevStatus, succAtStart,
                 errArgLogged, caught, thrown>>

\* after the status log: either the 60 s pause or authenticate(), which
\* runs up to its first log
PortalLogged ==
  /\ ~exited
  /\ pc = "portal_log"
  /\ pc' = IF TooManyAttempts(connectionAttempts)
             THEN "portal_cooldown"
             ELSE "a_log"
  /\ IF TooManyAttempts(connectionAttempts)
       THEN /\ cooldowns' = cooldowns + 1
            /\ UNCHANGED <<authCalls, runAuths, authsInFlight>>
       ELSE /\ authCalls' = authCalls + 1
            /\ runAuths' = runAuths + 1
            /\ authsInFlight' = authsInFlight + 1
            /\ UNCHANGED cooldowns
  /\ UNCHANGED <<logVars, closeVars, onlineVars, eventVars, domVars, scanVars, traceVars, initVars, paceVars, formVars, bmVars, formSubmitted, failRun, attAtStart, probesInFlight, joinCalls, runJoins, appVars, probeVars, loopError, browserVars, authVars, sigVars,
                 histVars>>

\* the 60 s pause is over: attempts back to 1, then authenticate()
PortalCooldown ==
  /\ ~exited
  /\ pc = "portal_cooldown"
  /\ connectionAttempts' = AttemptsAfterCooldown(connectionAttempts)
  /\ pc' = "a_log"
  /\ authCalls' = authCalls + 1
  /\ runAuths' = runAuths + 1
  /\ authsInFlight' = authsInFlight + 1
  /\ UNCHANGED <<logVars, closeVars, onlineVars, eventVars, domVars, scanVars, traceVars, initVars, paceVars, formVars, bmVars, formSubmitted, failRun, attAtStart, probesInFlight, joinCalls, runJoins, cooldowns, status, successfulConnections, consecutiveActiveConnections,
                 silentMode, probeVars, loopError, browserVars, authVars,
                 sigVars, histVars>>

\* a handler that goes on without a pause after a failed attempt
RetryPauseNever(authSuccess) == FALSE

\* handleCaptivePortalStatus: the 2 s pause in the else branch of
\* if (authSuccess)
RetryPause(authSuccess) == ~authSuccess

\* authenticate() has returned: log the outcome (and wait 2 s after a
\* failed attempt); the handler returns
PortalDone ==
  /\ ~exited
  /\ pc = "auth_ret"
  /\ pc' = "sleep"
  /\ success' = FALSE
  /\ urlIdx' = 0
  /\ portalUrlFound' = FALSE
  /\ faults' = {}
  /\ errArgLogged' = (errArgLogged \/ faults # {} \/ ~portalUrlFound)
  /\ authsInFlight' = authsInFlight - 1
  /\ formSubmitted' = FALSE
  /\ retryPaused' = RetryPause(success)
  /\ UNCHANGED <<logVars, closeVars, onlineVars, eventVars, domVars, scanVars, consAtStart, phases, initVars, probesInFlight, paceVars, formVars, bmVars, dispVars, appVars, probeVars, loopError, browserVars, sigVars, cycles,
                 classified, prevStatus, onlineRun, succAtStart, caught,
                 thrown>>

\* handleOfflineStatus, from the switch to its first await
OfflineEntry ==
  /\ ~exited
  /\ pc = "switch"
  /\ Handler(status) = "handleOfflineStatus"
  /\ primary' = NoProbe
  /\ backup' = NoProbe
  /\ onlineRun' = 0
  /\ silentMode' = FALSE
  /\ LET c == FailureCounters(connectionAttempts, consecutiveActiveConnections)
     IN /\ connectionAttempts' = c.attempts
        /\ consecutiveActiveConnections' = c.consecutive
  /\ pc' = "offline_log"
  /\ failRun' = failRun + 1
  /\ UNCHANGED <<logVars, closeVars, onlineVars, eventVars, domVars, scanVars, traceVars, initVars, flightVars, paceVars, formVars, bmVars, formSubmitted, joinCalls, authCalls, cooldowns, runJoins, runAuths, attAtStart, status, successfulConnections, loopError, browserVars,
                 authVars, sigVars, cycles, classified, prevStatus, succAtStart,
                 errArgLogged, caught, thrown>>

\* after the status log: either the 30 s pause or connectToWifi
OfflineLogged ==
  /\ ~exited
  /\ pc = "offline_log"
  /\ pc' = IF TooManyAttempts(connectionAttempts)
             THEN "offline_cooldown"
             ELSE "join"
  /\ IF TooManyAttempts(connectionAttempts)
       THEN /\ cooldowns' = cooldowns + 1
            /\ UNCHANGED <<joinCalls, runJoins>>
       ELSE /\ joinCalls' = joinCalls + 1
            /\ runJoins' = runJoins + 1
            /\ UNCHANGED cooldowns
  /\ UNCHANGED <<logVars, closeVars, onlineVars, eventVars, domVars, scanVars, traceVars, initVars, paceVars, formVars, bmVars, formSubmitted, failRun, attAtStart, flightVars, authCalls, runAuths, appVars, probeVars, loopError, browserVars, authVars, sigVars,
                 histVars>>

\* the 30 s pause is over: attempts back to 1, then connectToWifi
OfflineCooldown ==
  /\ ~exited
  /\ pc = "offline_cooldown"
  /\ connectionAttempts' = AttemptsAfterCooldown(connectionAttempts)
  /\ pc' = "join"
  /\ joinCalls' = joinCalls + 1
  /\ runJoins' = runJoins + 1
  /\ UNCHANGED <<logVars, closeVars, onlineVars, eventVars, domVars, scanVars, traceVars, initVars, paceVars, formVars, bmVars, formSubmitted, failRun, attAtStart, flightVars, authCalls, runAuths, cooldowns, status, successfulConnections, consecutiveActiveConnections,
                 silentMode, probeVars, loopError, browserVars, authVars,
                 sigVars, histVars>>

\* WifiManager.connectToWifi: wifi.connect settles; a rejection is caught
\* and logged with the error; then the 5 s wait of the handler
Join ==
  /\ ~exited
  /\ pc = "join"
  /\ \E failed \in BOOLEAN :
       /\ silentMode' = LogSilent(silentMode, failed)
       /\ errArgLogged' = (errArgLogged \/ failed)
  /\ pc' = "offline_wait"
  /\ UNCHANGED <<auxVars, status, connectionAttempts, successfulConnections,
                 consecutiveActiveConnections, probeVars, loopError,
                 browserVars, authVars, sigVars, cycles, classified, prevStatus,
                 onlineRun, succAtStart, caught, thrown>>

\* the 5 s wait is over: the handler returns
OfflineDone ==
  /\ ~exited
  /\ pc = "offline_wait"
  /\ pc' = "sleep"
  /\ UNCHANGED <<auxVars, appVars, probeVars, loopError, browserVars, authVars, sigVars,
                 histVars>>

(* ---------- App.startMonitoring: try / catch ---------- *)
\* the awaits inside the loop's try block that call into a collaborator
\* (logger, checker, authenticator, wifi manager) and so can reject
ThrowPoints == {"check", "online_log", "online_status_log", "portal_log",
                "a_log", "offline_log", "join"}

\* a catch block that ends the loop
AfterCatchStop == "stopped"

\* where control goes after the catch block: on to the pacing sleep
AfterCatch == "sleep"

\* an awaited call of the cycle rejects: control enters the catch block
Throw ==
  /\ ~exited
  /\ pc \in ThrowPoints
  /\ \E e \in ErrorValues : loopError' = e
  /\ thrown' = "injected"
  /\ pc' = "catch"
  /\ primary' = NoProbe
  /\ backup' = NoProbe
  /\ probesInFlight' = IF pc = "check" THEN probesInFlight - 1
                                       ELSE probesInFlight
  /\ authsInFlight' = IF pc = "a_log" THEN authsInFlight - 1
                                      ELSE authsInFlight
  /\ UNCHANGED <<logVars, closeVars, onlineVars, eventVars, domVars, scanVars, traceVars, initVars, paceVars, formVars, bmVars, dispVars, formSubmitted, appVars, browserVars, authVars, sigVars, cycles, classified,
                 prevStatus, onlineRun, succAtStart, errArgLogged, caught>>

\* the catch block's effect on silentMode: the log call carrying loopError,
\* then exitSilentMode if the logger is still silent
CatchSilent(silent, err) ==
  LET afterLog == LogSilent(silent, Truthy(err))
  IN IF afterLog THEN FALSE ELSE afterLog

\* catch (loopError): log with the error, connectionAttempts = 0,
\* exitSilentMode if the logger is still silent
Catch ==
  /\ ~exited
  /\ pc = "catch"
  /\ errArgLogged' = (errArgLogged \/ Truthy(loopError))
  /\ connectionAttempts' = 0
  /\ silentMode' = CatchSilent(silentMode, loopError)
  /\ caught' = TRUE
  /\ primary' = NoProbe
  /\ backup' = NoProbe
  /\ pc' = AfterCatch
  /\ failRun' = 0
  /\ runJoins' = 0
  /\ runAuths' = 0
  /\ UNCHANGED <<logVars, closeVars, onlineVars, eventVars, domVars, scanVars, traceVars, initVars, flightVars, paceVars, formVars, bmVars, formSubmitted, joinCalls, authCalls, cooldowns, attAtStart, status, successfulConnections, consecutiveActiveConnections,
                 loopError, browserVars, authVars, sigVars, cycles, classified,
                 prevStatus, onlineRun, succAtStart, thrown>>

(* ---------- App.startMonitoring: pacing ---------- *)
\* the pacing without its lower limit
SleepTimeUnclamped(d) == LOGIN_INTERVAL_MS - d

\* Math.max(0, this.config.LOGIN_INTERVAL_MS - duration)
SleepTime(d) ==
  IF LOGIN_INTERVAL_MS - d > 0 THEN LOGIN_INTERVAL_MS - d ELSE 0

\* after the try / catch: duration is what the cycle took since startTime,
\* sleepTime is computed, the "Sleeping for" line is logged unless the
\* logger is silent, and the timer of sleepTime is started
Pace ==
  /\ ~exited
  /\ pc = "sleep"
  /\ \E d \in 0..MaxWork :
       /\ duration' = d
       /\ sleepTime' = SleepTime(d)
  /\ pc' = "sleeping"
  /\ UNCHANGED <<logVars, closeVars, onlineVars, eventVars, domVars, scanVars, traceVars, appVars, probeVars, loopError, browserVars, authVars, sigVars,
                 histVars, initVars, flightVars, formVars, bmVars, dispVars,
                 formSubmitted>>

(* ---------- BrowserManager ---------- *)
\* closeBrowser clearing the reference only after a close that succeeded
ClosedInstanceKeptOnError(instance, closeThrew) ==
  IF closeThrew THEN instance ELSE 0

\* closeBrowser: finally { this.browserInstance = null }
ClosedInstance(instance, closeThrew) == 0

\* the browser a successful puppeteer.launch hands back
NewBrowser == CHOOSE b \in BrowserIds : b \notin openBrowsers

\* closeBrowser, from its call to its first await: nothing to do without
\* an instance, else the "Closing browser instance..." log
CloseEntry(instance, ifHeld, ifNull) == IF instance # 0 THEN ifHeld ELSE ifNull

(* ---------- BrowserManager on its own ---------- *)
\* a closeBrowser without its catch block
CloseReturnsOnlyOnSuccess(closeThrew) == ~closeThrew

\* closeBrowser: try { close() } catch (closeError) { log }: the call
\* returns to its caller whether close() rejected or not
CloseReturns(closeThrew) == TRUE

\* a launchBrowser that does not look at the reference it holds
LaunchEntryNoClose(instance, ifHeld, ifNull) == ifNull

\* launchBrowser: if (this.browserInstance) log, closeBrowser; then launch
LaunchEntry(instance, ifHeld, ifNull) ==
  IF instance # 0 THEN ifHeld ELSE ifNull

\* a BrowserManager after construction, with a caller that is about to
\* call its methods one after the other
BmInit ==
  /\ pc = "bm_idle"
  /\ Constructed
  /\ queryFaultsLeft = 0

\* the caller calls launchBrowser: with a session held, closeBrowser is
\* called first and runs up to its log; else puppeteer.launch is called
BmLaunchCall ==
  /\ pc = "bm_idle"
  /\ calls < MaxCalls
  /\ calls' = calls + 1
  /\ replaced' = browserInstance
  /\ pc' = LaunchEntry(browserInstance, "bm_lclose_log", "bm_launching")
  /\ UNCHANGED <<logVars, closeVars, onlineVars, eventVars, lastCloseThrew, closeRejections, domVars, scanVars, traceVars, appVars, probeVars, loopError, browserVars, authVars, sigVars,
                 histVars, initVars, flightVars, paceVars, formVars, dispVars,
                 formSubmitted>>

\* the caller calls closeBrowser: nothing to do without a session
BmCloseCall ==
  /\ pc = "bm_idle"
  /\ calls < MaxCalls
  /\ calls' = calls + 1
  /\ replaced' = 0
  /\ pc' = CloseEntry(browserInstance, "bm_close_log", "bm_idle")
  /\ UNCHANGED <<logVars, closeVars, onlineVars, eventVars, lastCloseThrew, closeRejections, domVars, scanVars, traceVars, appVars, probeVars, loopError, browserVars, authVars, sigVars,
                 histVars, initVars, flightVars, paceVars, formVars, dispVars,
                 formSubmitted>>

\* closeBrowser after its first log: browserInstance.close() is called
BmCloseLogged ==
  /\ pc \in {"bm_close_log", "bm_lclose_log"}
  /\ closing' = browserInstance
  /\ pc' = IF pc = "bm_close_log" THEN "bm_closing" ELSE "bm_lclosing"
  /\ UNCHANGED <<appVars, probeVars, loopError, browserInstance, openBrowsers,
                 authVars, sigVars, histVars, auxVars>>

\* close() settles, finally clears the reference; closeBrowser returns to
\* the caller, or to launchBrowser, which calls puppeteer.launch
BmClosed ==
  /\ pc \in {"bm_closing", "bm_lclosing"}
  /\ \E closeThrew \in BOOLEAN :
       /\ browserInstance' = ClosedInstance(browserInstance, closeThrew)
       /\ lastCloseThrew' = closeThrew
       /\ closeRejections' = IF CloseReturns(closeThrew)
                               THEN closeRejections
                               ELSE closeRejections + 1
       /\ pc' = IF pc = "bm_lclosing" /\ CloseReturns(closeThrew)
                  THEN "bm_launching"
                  ELSE "bm_idle"
  /\ openBrowsers' = openBrowsers \ {closing}
  /\ closing' = 0
  /\ UNCHANGED <<logVars, closeVars, onlineVars, eventVars, appVars, probeVars, loopError, authVars, sigVars, histVars,
                 initVars, flightVars, paceVars, formVars, dispVars,
                 traceVars, scanVars, domVars, formSubmitted, calls,
                 replaced>>

\* puppeteer.launch settles: the new browser is stored and returned, or
\* the rejection reaches the caller and the reference stays as it was
BmLaunched ==
  /\ pc = "bm_launching"
  /\ \/ /\ browserInstance' = NewBrowser
        /\ openBrowsers' = openBrowsers \cup {NewBrowser}
        /\ lastCloseThrew' = FALSE
     \/ UNCHANGED <<browserInstance, openBrowsers, lastCloseThrew>>
  /\ pc' = "bm_idle"
  /\ UNCHANGED <<logVars, closeVars, onlineVars, eventVars, appVars, probeVars, loopError, closing, authVars, sigVars,
                 histVars, initVars, flightVars, paceVars, formVars, dispVars,
                 traceVars, scanVars, domVars, formSubmitted, calls,
                 replaced, closeRejections>>

BmNext ==
  \/ BmLaunchCall \/ BmCloseCall \/ BmCloseLogged \/ BmClosed \/ BmLaunched

\* any sequence of launchBrowser and closeBrowser calls, a launch with no
\* close after it (an aborted run) included
BrowserSpec == BmInit /\ [][BmNext]_vars

(* ---------- BrowserManager: concurrent closeBrowser calls ---------- *)
\* a closeBrowser whose close() call stands outside the try block
AfterCloseLogUnguarded(instance) ==
  IF instance # 0 THEN "closing" ELSE "rejected"

\* closeBrowser after its first log: try { await
\* this.browserInstance.close() }. On a reference that another call has
\* cleared in the meantime the expression throws a TypeError inside the
\* try block, which the catch block takes
AfterCloseLog(instance) == IF instance # 0 THEN "closing" ELSE "catch"

\* a caller calls closeBrowser while other calls may be in progress:
\* nothing to do without a session, else the first log
CloserCall ==
  /\ pc \in {"bm_idle", "bm_shared"}
  /\ pc' = "bm_shared"
  /\ \E c \in Closers :
       /\ closers[c].at = "idle"
       /\ closers' = [closers EXCEPT
            ![c].at = CloseEntry(browserInstance, "log", "done")]
  /\ UNCHANGED <<logVars, appVars, probeVars, loopError, browserVars, authVars,
                 sigVars, histVars, initVars, flightVars, paceVars, formVars,
                 bmVars, dispVars, traceVars, scanVars, domVars, eventVars,
                 onlineVars, formSubmitted>>

\* after the first log the call reads the reference and calls close()
CloserLogged ==
  /\ \E c \in Closers :
       /\ closers[c].at = "log"
       /\ closers' = [closers EXCEPT
            ![c].at = AfterCloseLog(browserInstance),
            ![c].target = browserInstance]
       /\ closeRejections' =
            IF AfterCloseLog(browserInstance) = "rejected"
              THEN closeRejections + 1
              ELSE closeRejections
  /\ UNCHANGED <<logVars, pc, appVars, probeVars, loopError, browserVars, authVars,
                 sigVars, histVars, initVars, flightVars, paceVars, formVars,
                 calls, replaced, lastCloseThrew, dispVars, traceVars,
                 scanVars, domVars, eventVars, onlineVars, formSubmitted>>

\* close() settles: resolved, the finally block clears the reference and
\* logs; rejected, the catch block logs the error first
CloserSettled ==
  /\ \E c \in Closers :
       /\ closers[c].at = "closing"
       /\ openBrowsers' = openBrowsers \ {closers[c].target}
       /\ \E closeThrew \in BOOLEAN :
            /\ lastCloseThrew' = closeThrew
            /\ IF closeThrew
                 THEN /\ closers' = [closers EXCEPT
                           ![c].at = IF CloseReturns(closeThrew)
                                       THEN "catch" ELSE "rejected"]
                      /\ closeRejections' = IF CloseReturns(closeThrew)
                                              THEN closeRejections
                                              ELSE closeRejections + 1
                      /\ UNCHANGED browserInstance
                 ELSE /\ closers' = [closers EXCEPT ![c].at = "finally"]
                      /\ browserInstance' =
                           ClosedInstance(browserInstance, closeThrew)
                      /\ UNCHANGED closeRejections
  /\ UNCHANGED <<logVars, pc, appVars, probeVars, loopError, closing, authVars,
                 sigVars, histVars, initVars, flightVars, paceVars, formVars,
                 calls, replaced, dispVars, traceVars, scanVars, domVars,
                 eventVars, onlineVars, formSubmitted>>

\* the log of the catch block is written: the finally block clears the
\* reference and logs
CloserCaught ==
  /\ \E c \in Closers :
       /\ closers[c].at = "catch"
       /\ closers' = [closers EXCEPT ![c].at = "finally"]
  /\ browserInstance' = ClosedInstance(browserInstance, TRUE)
  /\ UNCHANGED <<logVars, pc, appVars, probeVars, loopError, openBrowsers, closing,
                 authVars, sigVars, histVars, initVars, flightVars, paceVars,
                 formVars, bmVars, dispVars, traceVars, scanVars, domVars,
                 eventVars, onlineVars, formSubmitted>>

\* the log of the finally block is written: closeBrowser returns
CloserReturn ==
  /\ \E c \in Closers :
       /\ closers[c].at = "finally"
       /\ closers' = [closers EXCEPT ![c].at = "done"]
  /\ UNCHANGED <<logVars, pc, appVars, probeVars, loopError, browserVars, authVars,
                 sigVars, histVars, initVars, flightVars, paceVars, formVars,
                 bmVars, dispVars, traceVars, scanVars, domVars, eventVars,
                 onlineVars, formSubmitted>>

CloseNext ==
  \/ BmNext
  \/ CloserCall \/ CloserLogged \/ CloserSettled \/ CloserCaught
  \/ CloserReturn

\* a BrowserManager used by one caller, and then by several callers that
\* call closeBrowser while the calls of the others are in progress
CloseSpec == BmInit /\ [][CloseNext]_vars

(* ---------- Logger on its own ---------- *)
LogLevel == {"DEBUG", "INFO", "WARN", "ERROR"}
\* messages given to log; the first is the one the loop logs before it
\* sleeps, the last is the text log itself uses for its error entry
LogMessages == {"Sleeping for 5 seconds", "Connection lost", "Error occurred"}
\* message.startsWith("Sleeping for")
IsSleepMessage(message) == message = "Sleeping for 5 seconds"
\* states of the ora spinner a caller hands to setSilentMode
Spinners == {"null", "spinning", "stopped"}

\* setSilentMode: the fields of the logger after the call
SetSilentMode(silent, spinner, startTime) ==
  [silentMode |-> silent,
   silentModeSpinner |-> IF ~silent /\ spinner = "spinning"
                           THEN "stopped" ELSE spinner,
   silentModeStartTime |-> IF silent THEN TRUE ELSE FALSE]

\* a log that recurses without leaving silent mode first
ExitArgumentKept(silent) == silent

\* log, the error branch: this.setSilentMode(false)
ExitArgument(silent) == FALSE

\* log: the branch an invocation takes
LogBranch(error, silent) ==
  IF Truthy(error) /\ silent THEN "exit"
  ELSE IF silent THEN "suppress"
  ELSE "emit"

\* the console line of the normal logging logic
LogEntry(message, error, level) ==
  [message |-> message, error |-> error, level |-> level]

\* the innermost invocation
TopFrame == logFrames[Len(logFrames)]
\* the innermost invocation moves on
SetTop(frame) == [logFrames EXCEPT ![Len(logFrames)] = frame]

\* App.enterSilentMode, App.exitSilentMode: setSilentMode called while no
\* call of log is in progress
LogSetSilent ==
  /\ pc \in {"l_idle", "l_returned"}
  /\ pc' = "l_idle"
  /\ \E silent \in BOOLEAN, spinner \in {"null", "spinning"} :
       LET after == SetSilentMode(silent,
                                  IF silent THEN spinner ELSE "null",
                                  silentModeStartTime)
       IN /\ silentMode' = after.silentMode
          /\ silentModeSpinner' = after.silentModeSpinner
          /\ silentModeStartTime' = after.silentModeStartTime
  /\ UNCHANGED <<logFrames, logCall, calledSilent, logEntries, logRecursions,
                 fileLines>>
  /\ UNCHANGED <<status, connectionAttempts, successfulConnections,
                 consecutiveActiveConnections, probeVars, loopError,
                 browserVars, authVars, sigVars, histVars, initVars,
                 flightVars, paceVars, formVars, bmVars, dispVars, traceVars,
                 scanVars, domVars, eventVars, onlineVars, closeVars,
                 formSubmitted>>

\* a caller calls log
LogCall ==
  /\ pc \in {"l_idle", "l_returned"}
  /\ pc' = "l_run"
  /\ \E message \in LogMessages, error \in ErrorValues, level \in LogLevel :
       /\ logCall' = LogEntry(message, error, level)
       /\ logFrames' = <<[message |-> message, error |-> error,
                          level |-> level, at |-> "enter"]>>
  /\ calledSilent' = silentMode
  /\ logEntries' = <<>>
  /\ logRecursions' = 0
  /\ fileLines' = 0
  /\ UNCHANGED <<silentMode, silentModeSpinner, silentModeStartTime>>
  /\ UNCHANGED <<status, connectionAttempts, successfulConnections,
                 consecutiveActiveConnections, probeVars, loopError,
                 browserVars, authVars, sigVars, histVars, initVars,
                 flightVars, paceVars, formVars, bmVars, dispVars, traceVars,
                 scanVars, domVars, eventVars, onlineVars, closeVars,
                 formSubmitted>>

\* an invocation runs up to its first await: with an error while silent it
\* fails the spinner, leaves silent mode and calls log with the message
\* alone; silent without an error it returns, after a second in which the
\* spinner shows a sleep message; else it writes its entry to the console
LogEnter ==
  /\ pc = "l_run"
  /\ TopFrame.at = "enter"
  /\ LET f == TopFrame
         branch == LogBranch(f.error, silentMode)
         after == SetSilentMode(ExitArgument(silentMode), "null",
                                silentModeStartTime)
     IN CASE branch = "exit" ->
               /\ silentMode' = after.silentMode
               /\ silentModeSpinner' = after.silentModeSpinner
               /\ silentModeStartTime' = after.silentModeStartTime
               /\ logRecursions' = logRecursions + 1
               /\ logFrames' = Append(SetTop([f EXCEPT !.at = "awaiting"]),
                                      [message |-> f.message,
                                       error |-> "undefined",
                                       level |-> f.level, at |-> "enter"])
               /\ UNCHANGED logEntries
          [] branch = "suppress" ->
               /\ logFrames' = SetTop([f EXCEPT !.at =
                    IF IsSleepMessage(f.message) /\ silentModeSpinner # "null"
                      THEN "sleeping" ELSE "done"])
               /\ UNCHANGED <<silentMode, silentModeSpinner,
                              silentModeStartTime, logRecursions, logEntries>>
          [] branch = "emit" ->
               /\ logEntries' = Append(logEntries,
                                       LogEntry(f.message, f.error, f.level))
               /\ logFrames' = SetTop([f EXCEPT !.at = "file"])
               /\ UNCHANGED <<silentMode, silentModeSpinner,
                              silentModeStartTime, logRecursions>>
  /\ UNCHANGED <<pc, logCall, calledSilent, fileLines>>
  /\ UNCHANGED <<status, connectionAttempts, successfulConnections,
                 consecutiveActiveConnections, probeVars, loopError,
                 browserVars, authVars, sigVars, histVars, initVars,
                 flightVars, paceVars, formVars, bmVars, dispVars, traceVars,
                 scanVars, domVars, eventVars, onlineVars, closeVars,
                 formSubmitted>>

\* the second in which the spinner shows the sleep message is over
LogSlept ==
  /\ pc = "l_run"
  /\ TopFrame.at = "sleeping"
  /\ logFrames' = SetTop([TopFrame EXCEPT !.at = "done"])
  /\ UNCHANGED <<pc, silentMode, logCall, calledSilent, logEntries,
                 logRecursions, fileLines, silentModeSpinner,
                 silentModeStartTime>>
  /\ UNCHANGED <<status, connectionAttempts, successfulConnections,
                 consecutiveActiveConnections, probeVars, loopError,
                 browserVars, authVars, sigVars, histVars, initVars,
                 flightVars, paceVars, formVars, bmVars, dispVars, traceVars,
                 scanVars, domVars, eventVars, onlineVars, closeVars,
                 formSubmitted>>

\* fs.stat and fs.appendFile settle; a rejection is caught and reported on
\* the console
LogFile ==
  /\ pc = "l_run"
  /\ TopFrame.at = "file"
  /\ \E appended \in BOOLEAN :
       fileLines' = IF appended THEN fileLines + 1 ELSE fileLines
  /\ logFrames' = SetTop([TopFrame EXCEPT !.at = "done"])
  /\ UNCHANGED <<pc, silentMode, logCall, calledSilent, logEntries,
                 logRecursions, silentModeSpinner, silentModeStartTime>>
  /\ UNCHANGED <<status, connectionAttempts, successfulConnections,
                 consecutiveActiveConnections, probeVars, loopError,
                 browserVars, authVars, sigVars, histVars, initVars,
                 flightVars, paceVars, formVars, bmVars, dispVars, traceVars,
                 scanVars, domVars, eventVars, onlineVars, closeVars,
                 formSubmitted>>

\* an invocation returns: to the caller, or to the invocation that awaits it
LogReturn ==
  /\ pc = "l_run"
  /\ TopFrame.at = "done"
  /\ LET rest == SubSeq(logFrames, 1, Len(logFrames) - 1)
     IN IF rest = <<>>
          THEN /\ pc' = "l_returned"
               /\ logFrames' = rest
          ELSE /\ pc' = pc
               /\ logFrames' = [rest EXCEPT ![Len(rest)].at = "resumed"]
  /\ UNCHANGED <<silentMode, logCall, calledSilent, logEntries,
                 logRecursions, fileLines, silentModeSpinner,
                 silentModeStartTime>>
  /\ UNCHANGED <<status, connectionAttempts, successfulConnections,
                 consecutiveActiveConnections, probeVars, loopError,
                 browserVars, authVars, sigVars, histVars, initVars,
                 flightVars, paceVars, formVars, bmVars, dispVars, traceVars,
                 scanVars, domVars, eventVars, onlineVars, closeVars,
                 formSubmitted>>

\* back from the recursive call: message = "Error occurred", and the
\* normal logging logic writes the entry with the error details
LogResumed ==
  /\ pc = "l_run"
  /\ TopFrame.at = "resumed"
  /\ LET f == TopFrame
     IN /\ logEntries' = Append(logEntries,
                                LogEntry("Error occurred", f.error, f.level))
        /\ logFrames' = SetTop([f EXCEPT !.message = "Error occurred",
                                         !.at = "file"])
  /\ UNCHANGED <<pc, silentMode, logCall, calledSilent, logRecursions,
                 fileLines, silentModeSpinner, silentModeStartTime>>
  /\ UNCHANGED <<status, connectionAttempts, successfulConnections,
                 consecutiveActiveConnections, probeVars, loopError,
                 browserVars, authVars, sigVars, histVars, initVars,
                 flightVars, paceVars, formVars, bmVars, dispVars, traceVars,
                 scanVars, domVars, eventVars, onlineVars, closeVars,
                 formSubmitted>>

LogInit ==
  /\ pc = "l_idle"
  /\ Constructed
  /\ queryFaultsLeft = 0

LogNext ==
  \/ LogSetSilent \/ LogCall \/ LogEnter \/ LogSlept \/ LogFile
  \/ LogReturn \/ LogResumed

\* a Logger whose log is called again and again, silent mode switched by
\* its owner between the calls
LogSpec == LogInit /\ [][LogNext]_vars

\* every await of a call settles
LogFairSpec == LogSpec /\ WF_vars(LogNext)

(* ---------- AutoLogin.monitor of src/index.ts ---------- *)
\* monitor, case ONLINE: if (this.consecutiveActiveConnections === 0)
LegacyCountsSuccess(consecutive) == consecutive = 0

\* AutoLogin.checkConnectivityStatus up to its return or to the backup probe
LegacyPrimaryVerdict(p) ==
  IF p.kind = "response"
    THEN IF p.status = 204
           THEN [kind |-> "return", status |-> ONLINE]
           ELSE IF p.status >= 200 /\ p.status < 400
                  THEN [kind |-> "return", status |-> CAPTIVE_PORTAL]
                  ELSE [kind |-> "return", status |-> OFFLINE]
    ELSE [kind |-> "backup", status |-> OFFLINE]

\* the backup probe of AutoLogin.checkConnectivityStatus
LegacyBackupVerdict(b) ==
  IF b.kind = "response"
    THEN IF b.data = "marker" THEN ONLINE ELSE CAPTIVE_PORTAL
    ELSE OFFLINE

\* the log calls of the catch block that pass err.message or err
LegacyLogsError(p) == p.kind \in {"network", "setup", "nonAxios"}

\* AutoLogin.log: the fields after a call, none of which waits for an await
LegacyLog(silent, consecutive, hasError) ==
  IF hasError /\ silent
    THEN [silentMode |-> FALSE, consecutive |-> 0]
    ELSE [silentMode |-> silent, consecutive |-> consecutive]

\* silent mode is entered after three ONLINE cycles
LegacyEntersSilent(consecutive, silent) == consecutive >= 3 /\ ~silent

\* the loop starts a cycle
LegacyTop ==
  /\ pc \in {"m_start", "m_sleep"}
  /\ cycles < MaxLegacyCycles
  /\ pc' = "m_check"
  /\ cycles' = cycles + 1
  /\ classified' = FALSE
  /\ prevStatus' = IF classified THEN status ELSE prevStatus
  /\ succAtStart' = successfulConnections
  /\ errArgLogged' = FALSE
  /\ primary' = NoProbe
  /\ backup' = NoProbe
  /\ UNCHANGED <<status, connectionAttempts, successfulConnections,
                 consecutiveActiveConnections, silentMode, onlineRun, caught,
                 thrown, loopError, browserVars, authVars, sigVars, auxVars>>

\* the primary probe settles; its catch block logs before the backup probe
LegacyPrimary ==
  /\ pc = "m_check"
  /\ \E p \in PrimaryOutcomes :
       LET v == LegacyPrimaryVerdict(p)
           logged == LegacyLog(silentMode, consecutiveActiveConnections,
                               LegacyLogsError(p))
       IN /\ primary' = p
          /\ silentMode' = logged.silentMode
          /\ consecutiveActiveConnections' = logged.consecutive
          /\ errArgLogged' = (errArgLogged \/ LegacyLogsError(p))
          /\ IF v.kind = "return"
               THEN /\ status' = v.status
                    /\ classified' = TRUE
                    /\ pc' = "m_switch"
               ELSE /\ pc' = "m_backup"
                    /\ UNCHANGED <<status, classified>>
  /\ UNCHANGED <<connectionAttempts, successfulConnections, backup, cycles,
                 prevStatus, onlineRun, succAtStart, caught, thrown,
                 loopError, browserVars, authVars, sigVars, auxVars>>

\* the backup probe settles
LegacyBackup ==
  /\ pc = "m_backup"
  /\ \E b \in BackupOutcomes :
       /\ backup' = b
       /\ status' = LegacyBackupVerdict(b)
  /\ classified' = TRUE
  /\ pc' = "m_switch"
  /\ UNCHANGED <<connectionAttempts, successfulConnections,
                 consecutiveActiveConnections, silentMode, primary, cycles,
                 prevStatus, onlineRun, succAtStart, errArgLogged, caught,
                 thrown, loopError, browserVars, authVars, sigVars, auxVars>>

\* case OFFLINE and case CAPTIVE_PORTAL: count the attempt, leave silent
\* mode, call connectToWifi or authenticateToPortal, wait
LegacyFailure ==
  /\ pc = "m_switch"
  /\ status \in {OFFLINE, CAPTIVE_PORTAL}
  /\ connectionAttempts' = connectionAttempts + 1
  /\ consecutiveActiveConnections' = 0
  /\ silentMode' = FALSE
  /\ pc' = "m_sleep"
  /\ UNCHANGED <<status, successfulConnections, primary, backup, cycles,
                 classified, prevStatus, onlineRun, succAtStart,
                 errArgLogged, caught, thrown, loopError, browserVars,
                 authVars, sigVars, auxVars>>

\* case ONLINE
LegacyOnline ==
  /\ pc = "m_switch"
  /\ status = ONLINE
  /\ successfulConnections' =
       IF LegacyCountsSuccess(consecutiveActiveConnections)
         THEN successfulConnections + 1
         ELSE successfulConnections
  /\ consecutiveActiveConnections' = consecutiveActiveConnections + 1
  /\ connectionAttempts' = 0
  /\ silentMode' =
       (silentMode \/ LegacyEntersSilent(consecutiveActiveConnections + 1,
                                         silentMode))
  /\ pc' = "m_sleep"
  /\ UNCHANGED <<status, primary, backup, cycles, classified, prevStatus,
                 onlineRun, succAtStart, errArgLogged, caught, thrown,
                 loopError, browserVars, authVars, sigVars, auxVars>>

LegacyInit ==
  /\ pc = "m_start"
  /\ Constructed
  /\ queryFaultsLeft = 0

LegacyNext ==
  \/ LegacyTop \/ LegacyPrimary \/ LegacyBackup \/ LegacyFailure
  \/ LegacyOnline

\* the monitor loop of the AutoLogin class
LegacySpec == LegacyInit /\ [][LegacyNext]_vars

(* ---------- FormService on its own ---------- *)
\* the fields fillField is called for, in the order of the calls
FieldNames == <<"idnumber", "name", "surname", "birthyear">>

\* what trying one submit selector can come to: page.$ finds nothing; page.$
\* or the click rejects with an Error (caught, the next selector is tried);
\* it rejects with a value that has no message, so that the catch block
\* itself throws; or the element is found and el.click() runs in the page
SelectorOutcomes == {"none", "error", "badError", "clicked"}

\* a form service that reports success only after filling some field
FormResultNeedsFields(submitClicked, fieldsFound) ==
  submitClicked /\ fieldsFound # {}

\* fillAndSubmitForm: if (submitClicked) return true else return false
FormResult(submitClicked, fieldsFound) == submitClicked

\* an input element of the page: its id, name and type attributes (the
\* pages explored carry no placeholder and no aria-label), and whether
\* puppeteer can click it and type into it (a hidden or covered element
\* makes element.click reject)
ElementIds == {"idnumber", "none"}
ElementNames == {"soyad", "none"}
ElementTypes == {"text", "number", "none"}
Elements ==
  [id : ElementIds, name : ElementNames, type : ElementTypes,
   interactable : BOOLEAN]

\* the pages: up to MaxInputs input elements in document order
Pages == UNION { [1..n -> Elements] : n \in 0..MaxInputs }

\* the texts looked for by the selectors that a name attribute contains
Substrings(name) ==
  IF name = "soyad" THEN {"soyad", "ad"} ELSE {}

Sel(kind, val) == [kind |-> kind, val |-> val]

\* const fieldSelectors
FieldSelectors ==
  [idnumber |-> << Sel("id", "idnumber"), Sel("name", "idnumber"),
                   Sel("nameHas", "tc"), Sel("nameHas", "kimlik"),
                   Sel("placeholderHas", "TC"),
                   Sel("placeholderHas", "Kimlik"),
                   Sel("ariaLabelHas", "TC"), Sel("ariaLabelHas", "Kimlik"),
                   Sel("textNameHas", "user"), Sel("type", "number") >>,
   name     |-> << Sel("id", "name"), Sel("name", "name"),
                   Sel("nameHas", "ad"), Sel("nameHas", "first"),
                   Sel("placeholderHas", "Ad"), Sel("placeholderHas", "Isim"),
                   Sel("placeholderHas", "First Name"),
                   Sel("ariaLabelHas", "Ad"), Sel("ariaLabelHas", "Isim"),
                   Sel("textNotUserPass", "") >>,
   surname  |-> << Sel("id", "surname"), Sel("name", "surname"),
                   Sel("nameHas", "soyad"), Sel("nameHas", "last"),
                   Sel("placeholderHas", "Soyad"),
                   Sel("placeholderHas", "Last Name"),
                   Sel("ariaLabelHas", "Soyad"),
                   Sel("textNotUserPass", "") >>,
   birthyear |-> << Sel("id", "birthyear"), Sel("name", "birthyear"),
                    Sel("nameHas", "yil"), Sel("nameHas", "year"),
                    Sel("placeholderHas", "Dogum Yili"),
                    Sel("placeholderHas", "Birth Year"),
                    Sel("placeholderHas", "YYYY"),
                    Sel("ariaLabelHas", "Yil"), Sel("ariaLabelHas", "Year"),
                    Sel("type", "number"), Sel("type", "tel") >>]

\* whether a CSS selector of fieldSelectors matches an input element
Matches(sel, el) ==
  CASE sel.kind = "id" -> el.id = sel.val
    [] sel.kind = "name" -> el.name = sel.val
    [] sel.kind = "nameHas" -> sel.val \in Substrings(el.name)
    [] sel.kind = "type" -> el.type = sel.val
    [] sel.kind = "textNameHas" ->
         el.type = "text" /\ sel.val \in Substrings(el.name)
    [] sel.kind = "textNotUserPass" ->
         /\ el.type = "text"
         /\ "user" \notin Substrings(el.name)
         /\ "pass" \notin Substrings(el.name)
    [] OTHER -> FALSE

\* page.$(selector): the first matching element in document order, 0 for
\* null
Query(sel, pg) ==
  IF \E i \in 1..Len(pg) : Matches(sel, pg[i])
    THEN CHOOSE i \in 1..Len(pg) :
           /\ Matches(sel, pg[i])
           /\ \A j \in 1..(i - 1) : ~Matches(sel, pg[j])
    ELSE 0

\* a fillField in which no element can be typed into
FilledNever(el) == FALSE

\* element.click, press and type on a found element go through (else one
\* of them rejects and the catch block of fillField logs the error)
Filled(el) == el.interactable

\* a fillField that gives the field up at the first selector that fails
AfterSelectorErrorGiveUp(field, k) == Len(FieldSelectors[field]) + 1

\* fillField: catch (e) { log } inside the for loop: the loop takes the
\* next selector
AfterSelectorError(field, k) == k + 1

\* the selectors of a field whose page.$ is let reject: a rejected query of
\* a selector that matches nothing differs from a null answer in the log
\* line only, so the first selector stands for those
QueryFaultPoints(field, pg) ==
  {1} \cup { k \in 1..Len(FieldSelectors[field]) :
               Query(FieldSelectors[field][k], pg) # 0 }

\* fillField from the k-th selector of the field on, page.$ rejecting at
\* the selector fault (0: at none): the number of selectors queried, the
\* element typed into (0: none, false returned), the elements found on the
\* way whose click rejected, and the selectors whose error was caught
RECURSIVE FillFrom(_, _, _, _, _, _)
FillFrom(field, k, pg, rejected, fault, errors) ==
  IF k > Len(FieldSelectors[field])
    THEN [field |-> field, queried |-> k - 1,
          target |-> 0, rejected |-> rejected, fault |-> fault,
          errors |-> errors]
    ELSE IF k = fault
      THEN FillFrom(field, AfterSelectorError(field, k), pg, rejected, fault,
                    errors \cup {k})
      ELSE LET element == Query(FieldSelectors[field][k], pg)
           IN IF element = 0
                THEN FillFrom(field, k + 1, pg, rejected, fault, errors)
                ELSE IF Filled(pg[element])
                  THEN [field |-> field, queried |-> k, target |-> element,
                        rejected |-> rejected, fault |-> fault,
                        errors |-> errors]
                  ELSE FillFrom(field, AfterSelectorError(field, k), pg,
                                rejected \cup {element}, fault,
                                errors \cup {k})

\* a FormService after construction, and a page to call it on
FormInit ==
  /\ pc = "f_idle"
  /\ Constructed
  /\ queryFaultsLeft = 0

\* fillAndSubmitForm is called on a page: first log, then
\* fillField("idnumber")
FormCall ==
  /\ pc = "f_idle"
  /\ \E pg \in Pages : dom' = pg
  /\ fieldIdx' = 1
  /\ pc' = "f_field"
  /\ UNCHANGED <<logVars, closeVars, onlineVars, eventVars, appVars, probeVars, loopError, browserVars, authVars, sigVars,
                 histVars, initVars, flightVars, paceVars, bmVars, dispVars,
                 traceVars, scanVars, fieldLog, queryFaultsLeft,
                 formSubmitted, formFieldsFound, selIdx, clicked, formResult>>

\* fillField for the field at fieldIdx returns: true after one of its
\* selectors found an element that was clicked, cleared and typed into,
\* false after every selector found nothing or failed (each failure is
\* caught); the result is not looked at. After the last field and the two
\* logs, clickSubmitButton starts with the first selector.
FillField ==
  /\ pc = "f_field"
  /\ \E fault \in {0} \cup QueryFaultPoints(FieldNames[fieldIdx], dom) :
       LET field == FieldNames[fieldIdx]
           walk == FillFrom(field, 1, dom, {}, fault, {})
       IN /\ fault # 0 => queryFaultsLeft > 0
          /\ queryFaultsLeft' = IF fault # 0 THEN queryFaultsLeft - 1
                                             ELSE queryFaultsLeft
          /\ fieldLog' = Append(fieldLog, walk)
          /\ formFieldsFound' = IF walk.target # 0
                                  THEN formFieldsFound \cup {field}
                                  ELSE formFieldsFound
  /\ IF fieldIdx < Len(FieldNames)
       THEN /\ fieldIdx' = fieldIdx + 1
            /\ UNCHANGED <<pc, selIdx>>
       ELSE /\ fieldIdx' = 0
            /\ selIdx' = 1
            /\ pc' = "f_submit"
  /\ UNCHANGED <<logVars, closeVars, onlineVars, eventVars, appVars, probeVars, loopError, browserVars, authVars, sigVars,
                 histVars, initVars, flightVars, paceVars, bmVars, dispVars,
                 traceVars, scanVars, dom,
                 formSubmitted, clicked, formResult>>

\* clickSubmitButton tries the selector at selIdx
TrySelector ==
  /\ pc = "f_submit"
  /\ \E o \in SelectorOutcomes :
       /\ clicked' = (o = "clicked")
       /\ IF o = "clicked"
            THEN pc' = "f_clicked" /\ selIdx' = 0
            ELSE IF o = "badError"
              THEN pc' = "f_catch" /\ selIdx' = 0
              ELSE IF selIdx < NumSubmitSelectors
                THEN pc' = "f_submit" /\ selIdx' = selIdx + 1
                ELSE pc' = "f_not_clicked" /\ selIdx' = 0
  /\ UNCHANGED <<logVars, closeVars, onlineVars, eventVars, domVars, scanVars, traceVars, appVars, probeVars, loopError, browserVars, authVars, sigVars,
                 histVars, initVars, flightVars, paceVars, bmVars, dispVars,
                 formSubmitted, fieldIdx, formFieldsFound, formResult>>

\* clickSubmitButton has returned true or false, or thrown into the catch
\* block of fillAndSubmitForm; fillAndSubmitForm returns
FormReturn ==
  /\ pc \in {"f_clicked", "f_not_clicked", "f_catch"}
  /\ formResult' = IF pc = "f_catch"
                     THEN "false"
                     ELSE IF FormResult(pc = "f_clicked", formFieldsFound)
                       THEN "true"
                       ELSE "false"
  /\ pc' = "f_returned"
  /\ UNCHANGED <<logVars, closeVars, onlineVars, eventVars, domVars, scanVars, traceVars, appVars, probeVars, loopError, browserVars, authVars, sigVars,
                 histVars, initVars, flightVars, paceVars, bmVars, dispVars,
                 formSubmitted, fieldIdx, formFieldsFound, selIdx, clicked>>

FormNext == FormCall \/ FillField \/ TrySelector \/ FormReturn

\* one call of fillAndSubmitForm, on every page
FormSpec == FormInit /\ [][FormNext]_vars

\* a FormService and a page on which up to MaxFaults queries will reject
FieldInit ==
  /\ pc = "f_idle"
  /\ Constructed
  /\ queryFaultsLeft = MaxFaults

FieldNext == FormCall \/ FillField

\* fillAndSubmitForm from its call to the call of clickSubmitButton, on
\* every page, with queries of fillField that reject
FieldSpec == FieldInit /\ [][FieldNext]_vars

(* ---------- PortalAuthenticator.authenticate ---------- *)
\* the phases of one authenticate() call: LAUNCH (launchBrowser, newPage),
\* NAVIGATE (page.goto of a candidate), DETECT (classification of its
\* landing), FILL (before_fill screenshot, fillAndSubmitForm), SETTLE (the
\* 10 s pause, after_submit screenshot), CLOSE (closeBrowser in finally)
PhaseOrder == <<"LAUNCH", "NAVIGATE", "DETECT", "FILL", "SETTLE", "CLOSE">>

\* NAVIGATE and DETECT alternate, once per candidate, within the scan
ScanPhases == {"NAVIGATE", "DETECT"}

\* the phase the call is in at a suspension point
PhaseOf(p) ==
  CASE p \in {"a_launch", "a_newpage"} -> "LAUNCH"
    [] p \in {"a_goto", "n_goto"} -> "NAVIGATE"
    [] p = "n_detect" -> "DETECT"
    [] p \in {"a_shot_before", "a_fill", "a_shot_failed"} -> "FILL"
    [] p \in {"a_settle", "a_shot_after"} -> "SETTLE"
    [] p \in {"a_close_log", "a_closing"} -> "CLOSE"
    [] OTHER -> "NONE"

\* the record of the phases entered: a phase is added when the call moves
\* into it from another one; the iterations of the scan over the
\* candidates are recorded once
EnterPhase(ph, p) ==
  IF \/ p = "NONE"
     \/ ph # <<>> /\ ph[Len(ph)] = p
     \/ /\ ph # <<>>
        /\ p \in ScanPhases
        /\ ph[Len(ph)] \in ScanPhases
        /\ \E n \in 1..Len(ph) : ph[n] = p
    THEN ph
    ELSE Append(ph, p)

CanFault == Cardinality(faults) < MaxFaults

\* after the first log: launchBrowser (closing an instance still held)
\* calls puppeteer.launch
AuthLaunchCall ==
  /\ ~exited
  /\ pc = "a_log"
  /\ browserInstance' = 0
  /\ openBrowsers' = openBrowsers \ {browserInstance}
  /\ pc' = "a_launch"
  /\ phases' = EnterPhase(<<>>, PhaseOf("a_launch"))
  /\ UNCHANGED <<logVars, closeVars, onlineVars, eventVars, initVars, flightVars, paceVars, formVars, bmVars, dispVars, scanVars,
                 domVars, formSubmitted, consAtStart, retryPaused, appVars, probeVars, loopError, closing, authVars, sigVars,
                 histVars>>

\* puppeteer.launch settles; on success browser.newPage() is called, on
\* failure control enters authenticate's catch block
AuthLaunched ==
  /\ ~exited
  /\ pc = "a_launch"
  /\ \/ /\ browserInstance' = NewBrowser
        /\ openBrowsers' = openBrowsers \cup {NewBrowser}
        /\ pc' = "a_newpage"
        /\ UNCHANGED faults
     \/ /\ CanFault
        /\ faults' = faults \cup {"launch"}
        /\ pc' = "a_catch"
        /\ UNCHANGED <<browserInstance, openBrowsers>>
  /\ UNCHANGED <<auxVars, appVars, probeVars, loopError, closing, success, urlIdx,
                 portalUrlFound, sigVars, histVars>>

\* newPage / setUserAgent settle; on success the scan of
\* alternativeTestUrls starts with page.goto of the first URL
AuthNewPage ==
  /\ ~exited
  /\ pc = "a_newpage"
  /\ \/ /\ urlIdx' = 1
        /\ pc' = "a_goto"
        /\ UNCHANGED faults
     \/ /\ CanFault
        /\ faults' = faults \cup {"page"}
        /\ pc' = "a_catch"
        /\ UNCHANGED urlIdx
  /\ phases' = EnterPhase(phases, PhaseOf(pc'))
  /\ UNCHANGED <<logVars, closeVars, onlineVars, eventVars, initVars, flightVars, paceVars, formVars, bmVars, dispVars, scanVars,
                 domVars, formSubmitted, consAtStart, retryPaused, appVars, probeVars, loopError, browserVars, success,
                 portalUrlFound, sigVars, histVars>>

\* page.goto settles for the URL at urlIdx: a portal-like landing breaks
\* the loop, any other landing or a navigation error moves to the next URL;
\* after the loop the before_fill screenshot is taken
AuthGoto ==
  /\ ~exited
  /\ pc = "a_goto"
  /\ \E result \in {"portal", "plain", "error"} :
       /\ result = "error" => (CanFault \/ "nav" \in faults)
       /\ faults' = IF result = "error" THEN faults \cup {"nav"} ELSE faults
       /\ IF result = "portal"
            THEN /\ portalUrlFound' = TRUE
                 /\ pc' = "a_shot_before"
                 /\ urlIdx' = 0
            ELSE IF urlIdx < NumTestUrls
              THEN /\ urlIdx' = urlIdx + 1
                   /\ pc' = "a_goto"
                   /\ UNCHANGED portalUrlFound
              ELSE /\ pc' = "a_shot_before"
                   /\ urlIdx' = 0
                   /\ UNCHANGED portalUrlFound
       /\ phases' = EnterPhase(IF result = "error"
                                  THEN phases
                                  ELSE EnterPhase(phases, "DETECT"),
                                PhaseOf(pc'))
  /\ UNCHANGED <<logVars, closeVars, onlineVars, eventVars, initVars, flightVars, paceVars, formVars, bmVars, dispVars, scanVars,
                 domVars, formSubmitted, consAtStart, retryPaused, appVars, probeVars, loopError, browserVars, success, sigVars,
                 histVars>>

\* saveScreenshot(before_fill) settles (a failure is caught inside it);
\* fillAndSubmitForm is called
AuthShotBefore ==
  /\ ~exited
  /\ pc = "a_shot_before"
  /\ \E shotFailed \in BOOLEAN :
       /\ shotFailed => CanFault
       /\ faults' = IF shotFailed THEN faults \cup {"shot"} ELSE faults
  /\ pc' = "a_fill"
  /\ phases' = EnterPhase(phases, PhaseOf(pc'))
  /\ UNCHANGED <<logVars, closeVars, onlineVars, eventVars, initVars, flightVars, paceVars, formVars, bmVars, dispVars, scanVars,
                 domVars, formSubmitted, consAtStart, retryPaused, appVars, probeVars, loopError, browserVars, success, urlIdx,
                 portalUrlFound, sigVars, histVars>>

\* an authenticate() that scans the candidates again when no submit
\* control was activated
AfterFillRescan(submitted) == IF submitted THEN "a_settle" ELSE "a_goto"

\* an authenticate() that goes on to the settle pause whatever
\* fillAndSubmitForm returned
AfterFillAlwaysSettle(submitted) == "a_settle"

\* authenticate: if (formSubmitted) ... else ...
AfterFill(submitted) == IF submitted THEN "a_settle" ELSE "a_shot_failed"

\* fillAndSubmitForm settles: true after a click on a submit control,
\* false without one or after an error caught inside it
AuthFill ==
  /\ ~exited
  /\ pc = "a_fill"
  /\ \E filled \in {"submitted", "noSubmit", "error"} :
       /\ filled = "error" => CanFault
       /\ faults' = IF filled = "error" THEN faults \cup {"fill"} ELSE faults
       /\ formSubmitted' = (filled = "submitted")
       /\ pc' = AfterFill(filled = "submitted")
       /\ phases' = EnterPhase(phases, PhaseOf(AfterFill(filled = "submitted")))
  /\ UNCHANGED <<logVars, closeVars, onlineVars, eventVars, domVars, scanVars, consAtStart, retryPaused, initVars, flightVars, paceVars, formVars, bmVars, dispVars,
                 appVars, probeVars, loopError, browserVars, success, urlIdx,
                 portalUrlFound, sigVars, histVars>>

\* the 10 s settle pause is over: success = true, after_submit screenshot
AuthSettle ==
  /\ ~exited
  /\ pc = "a_settle"
  /\ success' = TRUE
  /\ pc' = "a_shot_after"
  /\ phases' = EnterPhase(phases, PhaseOf(pc'))
  /\ UNCHANGED <<logVars, closeVars, onlineVars, eventVars, initVars, flightVars, paceVars, formVars, bmVars, dispVars, scanVars,
                 domVars, formSubmitted, consAtStart, retryPaused, appVars, probeVars, loopError, browserVars, urlIdx,
                 portalUrlFound, faults, sigVars, histVars>>

\* the last screenshot of the try block settles; finally: closeBrowser
AuthShotAfter ==
  /\ ~exited
  /\ pc \in {"a_shot_after", "a_shot_failed"}
  /\ \E shotFailed \in BOOLEAN :
       /\ shotFailed => CanFault
       /\ faults' = IF shotFailed THEN faults \cup {"shot"} ELSE faults
  /\ pc' = CloseEntry(browserInstance, "a_close_log", "auth_ret")
  /\ phases' = EnterPhase(phases, "CLOSE")
  /\ UNCHANGED <<logVars, closeVars, onlineVars, eventVars, initVars, flightVars, paceVars, formVars, bmVars, dispVars, scanVars,
                 domVars, formSubmitted, consAtStart, retryPaused, appVars, probeVars, loopError, browserVars, success, urlIdx,
                 portalUrlFound, sigVars, histVars>>

\* catch (error): log, success = false, on_error screenshot if a browser is
\* held (its failure is caught); finally: closeBrowser
AuthCatch ==
  /\ ~exited
  /\ pc = "a_catch"
  /\ success' = FALSE
  /\ pc' = CloseEntry(browserInstance, "a_close_log", "auth_ret")
  /\ phases' = EnterPhase(phases, "CLOSE")
  /\ UNCHANGED <<logVars, closeVars, onlineVars, eventVars, initVars, flightVars, paceVars, formVars, bmVars, dispVars, scanVars,
                 domVars, formSubmitted, consAtStart, retryPaused, appVars, probeVars, loopError, browserVars, urlIdx,
                 portalUrlFound, faults, sigVars, histVars>>

\* closeBrowser after its first log: browserInstance.close() is called; on
\* a reference cleared in the meantime the call throws at once, is caught,
\* and the finally block runs
AuthCloseCall ==
  /\ ~exited
  /\ pc = "a_close_log"
  /\ IF browserInstance = 0
       THEN /\ pc' = "auth_ret"
            /\ UNCHANGED closing
       ELSE /\ closing' = browserInstance
            /\ pc' = "a_closing"
  /\ UNCHANGED <<auxVars, appVars, probeVars, loopError, browserInstance, openBrowsers,
                 authVars, sigVars, histVars>>

\* close() settles: catch logs a failure, finally clears the reference;
\* authenticate returns success
AuthClosed ==
  /\ ~exited
  /\ pc = "a_closing"
  /\ \E closeThrew \in BOOLEAN :
       /\ closeThrew => CanFault
       /\ faults' = IF closeThrew THEN faults \cup {"close"} ELSE faults
       /\ browserInstance' = ClosedInstance(browserInstance, closeThrew)
  /\ openBrowsers' = openBrowsers \ {closing}
  /\ closing' = 0
  /\ pc' = "auth_ret"
  /\ UNCHANGED <<auxVars, appVars, probeVars, loopError, success, urlIdx,
                 portalUrlFound, sigVars, histVars>>

(* ---------- PortalAuthenticator.authenticate: page.on callbacks ---------- *)
\* the events the three callbacks are registered for; a console message is
\* of type error or of another type
PageEventKinds == {"requestfailed", "pageerror", "consoleError",
                   "consoleOther"}

\* the callback calls logger.log (the console callback for messages of type
\* error only)
EventLogs(kind) == kind # "consoleOther"

\* the log call passes a second argument: the request's method and
\* resource type, or the error's stack
EventLogsError(kind) == kind \in {"requestfailed", "pageerror"}

\* the suspension points of authenticate() at which the page exists and
\* the callbacks are registered: from the first page.goto until close()
\* has settled
PageListening == {"a_goto", "a_shot_before", "a_fill", "a_settle",
                  "a_shot_after", "a_shot_failed", "a_close_log",
                  "a_closing"}

\* a callback whose error reaches authenticate's catch block
AfterPageEventAbort(p) == "a_catch"

\* the callback returns to the event loop: authenticate() stays suspended
\* where it was
AfterPageEvent(p) == p

\* the page emits an event while authenticate() is suspended: the callback
\* runs to its end, calling logger.log without awaiting it
PageEvent ==
  /\ ~exited
  /\ pc \in PageListening
  /\ pageEvents < MaxEvents
  /\ \E kind \in PageEventKinds :
       /\ silentMode' = IF EventLogs(kind)
                          THEN LogSilent(silentMode, EventLogsError(kind))
                          ELSE silentMode
       /\ errArgLogged' =
            (errArgLogged \/ (EventLogs(kind) /\ EventLogsError(kind)))
  /\ pageEvents' = pageEvents + 1
  /\ pc' = AfterPageEvent(pc)
  /\ UNCHANGED <<logVars, status, connectionAttempts, successfulConnections,
                 consecutiveActiveConnections, probeVars, loopError,
                 browserVars, authVars, sigVars, cycles, classified,
                 prevStatus, onlineRun, succAtStart, caught, thrown,
                 initVars, flightVars, paceVars, formVars, bmVars, dispVars,
                 traceVars, scanVars, domVars, onlineVars, closeVars,
                 formSubmitted>>

(* ---------- PortalAuthenticator.authenticate: the URL scan on its own ---------- *)
\* HTTP statuses of a navigation response; 0 stands for page.goto resolving
\* with no response (navigationResponse?.status() ?? 0)
NavStatuses == {0, 200, 204, 500}

\* testUrl.includes("generate_204"): true of the last candidate only (the
\* configured authUrl is taken not to contain that text)
ExpectsNoContent(i) == i = NumTestUrls

\* what page.goto of candidate i can lead to: whether the final URL's host
\* differs from the requested one, whether the final URL contains "login",
\* "auth" or "hotspot", whether the final URL is the requested URL, and the
\* status. A URL on another host is another URL; the four fixed candidates
\* contain none of the three words, the configured authUrl (candidate 1) may.
Landings(i) ==
  { l \in [crossHost : BOOLEAN, token : BOOLEAN, sameUrl : BOOLEAN,
           status : NavStatuses] :
      /\ l.crossHost => ~l.sameUrl
      /\ (l.sameUrl /\ i > 1) => ~l.token }

\* const isLikelyPortal = ...
IsLikelyPortal(l, i) ==
  \/ l.crossHost
  \/ l.token
  \/ (l.status # 204 /\ ExpectsNoContent(i))
  \/ (l.status # 200 /\ ~ExpectsNoContent(i))

\* what the scan logs of a landing: "Possible captive portal detected"
\* (and breaks), "Seems online or not a portal", or "Not identified as
\* portal. Trying next..."
Report(l, i) ==
  IF IsLikelyPortal(l, i) /\ ~l.sameUrl
    THEN "portal"
    ELSE IF l.status \in {200, 204} THEN "seemsOnline" ELSE "notIdentified"

\* a scan that gives the attempt up at the first navigation error
AfterScanStepAbortOnError(report, i) ==
  IF report \in {"portal", "error"}
    THEN (IF report = "error" THEN "a_catch" ELSE "a_shot_before")
    ELSE IF i < NumTestUrls THEN "n_goto" ELSE "a_shot_before"

\* a scan that goes on after a detected portal
AfterScanStepNoBreak(report, i) ==
  IF i < NumTestUrls THEN "n_goto" ELSE "a_shot_before"

\* the for loop: break on a detected portal, else the next candidate; after
\* the loop the logs and the before_fill screenshot
AfterScanStep(report, i) ==
  IF report = "portal"
    THEN "a_shot_before"
    ELSE IF i < NumTestUrls THEN "n_goto" ELSE "a_shot_before"

\* an authenticate() call on a constructed PortalAuthenticator
ScanInit ==
  /\ pc = "n_start"
  /\ Constructed
  /\ queryFaultsLeft = 0

\* the browser is launched and the page created; the scan starts with
\* page.goto of the first candidate
ScanStart ==
  /\ pc = "n_start"
  /\ browserInstance' = NewBrowser
  /\ openBrowsers' = openBrowsers \cup {NewBrowser}
  /\ urlIdx' = 1
  /\ pc' = "n_goto"
  /\ phases' = EnterPhase(EnterPhase(<<>>, "LAUNCH"), PhaseOf("n_goto"))
  /\ UNCHANGED <<logVars, closeVars, onlineVars, eventVars, domVars, appVars, probeVars, loopError, closing, success,
                 portalUrlFound, faults, sigVars, histVars, initVars,
                 flightVars, paceVars, formVars, bmVars, dispVars, consAtStart,
                 retryPaused,
                 scanVars, formSubmitted>>

\* page.goto of the candidate at urlIdx settles. Resolved: the page shows
\* the landing, which is logged and then classified. Rejected (timeout,
\* blocked, ...): the error is logged, the page is left on the document it
\* showed or on the one the navigation had reached, and after 500 ms the
\* loop goes on.
ScanGoto ==
  /\ pc = "n_goto"
  /\ \/ /\ \E l \in Landings(urlIdx) : landing' = l
        /\ page' = urlIdx
        /\ pc' = "n_detect"
        /\ UNCHANGED <<navLog, urlIdx>>
     \/ /\ landing' = NoLanding
        /\ \E shown \in {page, urlIdx} : page' = shown
        /\ navLog' = Append(navLog, [url |-> urlIdx, report |-> "error",
                                     crossHost |-> FALSE])
        /\ pc' = AfterScanStep("error", urlIdx)
        /\ urlIdx' = IF AfterScanStep("error", urlIdx) = "n_goto"
                       THEN urlIdx + 1
                       ELSE 0
  /\ phases' = EnterPhase(phases, PhaseOf(pc'))
  /\ UNCHANGED <<logVars, closeVars, onlineVars, eventVars, domVars, appVars, probeVars, loopError, browserVars, success,
                 portalUrlFound, faults, sigVars, histVars, initVars,
                 flightVars, paceVars, formVars, bmVars, dispVars, consAtStart,
                 retryPaused,
                 formSubmitted>>

\* the landing is classified and the outcome logged
ScanDetect ==
  /\ pc = "n_detect"
  /\ LET report == Report(landing, urlIdx)
     IN /\ navLog' = Append(navLog, [url |-> urlIdx, report |-> report,
                                     crossHost |-> landing.crossHost])
        /\ portalUrlFound' = IF report = "portal" THEN TRUE
                                                  ELSE portalUrlFound
        /\ pc' = AfterScanStep(report, urlIdx)
        /\ urlIdx' = IF AfterScanStep(report, urlIdx) = "n_goto"
                       THEN urlIdx + 1
                       ELSE 0
  /\ phases' = EnterPhase(phases, PhaseOf(pc'))
  /\ UNCHANGED <<logVars, closeVars, onlineVars, eventVars, domVars, appVars, probeVars, loopError, browserVars, success, faults,
                 sigVars, histVars, initVars, flightVars, paceVars, formVars,
                 bmVars, dispVars, consAtStart, retryPaused, landing, page, formSubmitted>>

(* ---------- App.setupSignalHandlers: shutdown ---------- *)
\* SIGINT / SIGTERM arrives after startMonitoring installed its handlers:
\* shutdown starts and awaits its first log
Signal ==
  /\ pc \notin PreLoopPcs
  /\ spc = "idle"
  /\ spc' = "s_log"
  /\ UNCHANGED <<auxVars, pc, appVars, probeVars, loopError, browserVars, authVars,
                 sClosing, exited, histVars>>

\* after the first log: exitSilentMode, then closeBrowser up to its first
\* await, or straight on to the "Application shut down" log
ShutdownLogged ==
  /\ spc = "s_log"
  /\ silentMode' = FALSE
  /\ spc' = CloseEntry(browserInstance, "s_close_log", "s_bye")
  /\ UNCHANGED <<auxVars, pc, status, connectionAttempts, successfulConnections,
                 consecutiveActiveConnections, probeVars, loopError,
                 browserVars, authVars, sClosing, exited, histVars>>

\* closeBrowser after its first log: browserInstance.close() is called
ShutdownCloseCall ==
  /\ spc = "s_close_log"
  /\ IF browserInstance = 0
       THEN /\ spc' = "s_bye"
            /\ UNCHANGED sClosing
       ELSE /\ sClosing' = browserInstance
            /\ spc' = "s_closing"
  /\ UNCHANGED <<auxVars, pc, appVars, probeVars, loopError, browserVars, authVars,
                 exited, histVars>>

\* close() settles; finally clears the reference
ShutdownClosed ==
  /\ spc = "s_closing"
  /\ \E closeThrew \in BOOLEAN :
       browserInstance' = ClosedInstance(browserInstance, closeThrew)
  /\ openBrowsers' = openBrowsers \ {sClosing}
  /\ sClosing' = 0
  /\ spc' = "s_bye"
  /\ UNCHANGED <<auxVars, pc, appVars, probeVars, loopError, closing, authVars, exited,
                 histVars>>

\* after the last log: process.exit(0)
ShutdownExit ==
  /\ spc = "s_bye"
  /\ exited' = TRUE
  /\ spc' = "exited"
  /\ UNCHANGED <<auxVars, pc, appVars, probeVars, loopError, browserVars, authVars,
                 sClosing, histVars>>

(* ---------- specifications ---------- *)
\* the monitoring loop on its own
Next ==
  \/ AppInit \/ StartAppBranch \/ StartMonitoring
  \/ LoopTop \/ CheckPrimary \/ CheckBackup
  \/ OnlineEntry \/ OnlineReset \/ OnlineFinish
  \/ PortalEntry \/ PortalLogged \/ PortalCooldown \/ PortalDone
  \/ OfflineEntry \/ OfflineLogged \/ OfflineCooldown \/ Join \/ OfflineDone
  \/ Throw \/ Catch \/ Pace
  \/ AuthLaunchCall \/ AuthLaunched \/ AuthNewPage \/ AuthGoto
  \/ AuthShotBefore \/ AuthFill \/ AuthSettle \/ AuthShotAfter \/ AuthCatch
  \/ AuthCloseCall \/ AuthClosed \/ PageEvent

Spec == Init /\ [][Next]_vars

\* the loop with a termination signal arriving at any suspension point
SigNext ==
  \/ Next
  \/ Signal \/ ShutdownLogged \/ ShutdownCloseCall \/ ShutdownClosed
  \/ ShutdownExit

SigSpec == Init /\ [][SigNext]_vars

\* one authenticate() call whose browser launched, with the URL scan in
\* detail, from the first page.goto to the return
ScanNext ==
  \/ ScanStart \/ ScanGoto \/ ScanDetect
  \/ AuthShotBefore \/ AuthFill \/ AuthSettle \/ AuthShotAfter
  \/ AuthCloseCall \/ AuthClosed

ScanSpec == ScanInit /\ [][ScanNext]_vars

\* the loop under the event loop's scheduling: a continuation that is
\* ready to run is eventually run
FairSpec == Init /\ [][Next]_vars /\ WF_vars(Next)

(* ---------- properties ---------- *)
\* C1: in every reachable state of the monitoring loop, connectionAttempts
\* and consecutiveActiveConnections are never both nonzero.
C1_CountersExclusive ==
  ~(connectionAttempts > 0 /\ consecutiveActiveConnections > 0)

\* a CAPTIVE_PORTAL cycle that follows an ONLINE cycle has ended
C1_Witness ==
  /\ pc = "sleep"
  /\ classified
  /\ status = CAPTIVE_PORTAL
  /\ prevStatus = ONLINE
  /\ connectionAttempts = 1
  /\ consecutiveActiveConnections = 0

\* C2 (as claimed): at the end of an ONLINE cycle successfulConnections has
\* grown by exactly 1 if the previous classification was not ONLINE (or
\* there was none), and has not changed if it was ONLINE.
C2_SuccessOncePerReacquisition ==
  (pc = "sleep" /\ classified /\ status = ONLINE /\ ~caught)
    => successfulConnections - succAtStart =
         (IF prevStatus # ONLINE THEN 1 ELSE 0)

\* C3: when authenticate() returns, BrowserManager holds no browser and no
\* launched browser is left open, whichever phase failed.
C3_NoSessionAfterAuthenticate ==
  pc = "auth_ret" => (browserInstance = 0 /\ openBrowsers = {})

\* authenticate() returns after Browser.close() threw
C3_Witness == pc = "auth_ret" /\ "close" \in faults

\* C4 (as claimed): process.exit(0) is never reached while a launched
\* browser is still open.
C4_NoOpenBrowserAtExit == exited => openBrowsers = {}

\* C5: an exception of a cycle never ends the loop or the process, and
\* after the catch block a further classification is started (as long as
\* the explored number of cycles allows another one).
C5_LoopSurvivesErrors ==
  /\ [](pc # "stopped" /\ ~exited)
  /\ ((pc = "catch" /\ cycles < MaxCycles) ~> (pc = "check"))

\* an injected rejection is about to be caught, with a cycle left to run
C5_Witness == pc = "catch" /\ thrown = "injected" /\ cycles < MaxCycles

\* C6: the logger is silent only when at least
\* CONSECUTIVE_CHECKS_FOR_SILENT ONLINE classifications have been handled
\* since the last non-ONLINE one.
C6_SilentOnlyAfterThreshold ==
  silentMode => onlineRun >= CONSECUTIVE_CHECKS_FOR_SILENT

\* silent mode was entered by the cycle that reached the threshold
C6_Witness ==
  /\ pc = "sleep"
  /\ silentMode
  /\ onlineRun = CONSECUTIVE_CHECKS_FOR_SILENT
  /\ consecutiveActiveConnections = CONSECUTIVE_CHECKS_FOR_SILENT

\* C7 (as claimed): at the end of a cycle classified OFFLINE or
\* CAPTIVE_PORTAL, or in which the loop caught an error or a log call
\* carried an error argument, the logger is not silent.
C7_NotSilentAfterFailureOrError ==
  (pc = "sleep" /\ ( (classified /\ status \in {OFFLINE, CAPTIVE_PORTAL})
                     \/ caught
                     \/ errArgLogged ))
    => ~silentMode

\* C8: no outcome of the two probes makes checkConnectivityStatus throw, and
\* what it returns is one of the three statuses.
C8_ClassifierNeverThrows ==
  /\ thrown # "probe"
  /\ pc = "switch" => (classified /\ status \in ConnectivityStatus)

\* both probes failed without a response and OFFLINE was returned
C8_Witness ==
  /\ pc = "switch"
  /\ primary.kind = "nonAxios"
  /\ backup.kind = "timeout"
  /\ status = OFFLINE

PrimaryUndecided ==
  /\ primary # NoProbe
  /\ ~(primary.kind = "response" /\ primary.status >= 200
         /\ primary.status < 400)

\* C10 (as claimed): after an undecided primary probe the backup probe
\* decides: marker in a 2xx answer is ONLINE, another 2xx/3xx answer is
\* CAPTIVE_PORTAL, every other outcome is OFFLINE.
C10_BackupDecidesAsClaimed ==
  (pc = "switch" /\ PrimaryUndecided)
    => /\ backup # NoProbe
       /\ status =
            (IF backup.kind = "response" /\ backup.status >= 200
                  /\ backup.status < 300 /\ backup.data = "marker"
               THEN ONLINE
               ELSE IF backup.kind = "response" /\ backup.status >= 200
                         /\ backup.status < 400
                 THEN CAPTIVE_PORTAL
                 ELSE OFFLINE)

\* C10 (amended): after an undecided primary probe the backup probe
\* decides: marker in a 2xx answer is ONLINE, every other answer, whatever
\* its status, is CAPTIVE_PORTAL, and only a request that ends without an
\* answer (timeout, connection error) is OFFLINE.
C10_BackupDecides ==
  (pc = "switch" /\ PrimaryUndecided)
    => /\ backup # NoProbe
       /\ status =
            (IF backup.kind # "response"
               THEN OFFLINE
               ELSE IF backup.status >= 200 /\ backup.status < 300
                         /\ backup.data = "marker"
                 THEN ONLINE
                 ELSE CAPTIVE_PORTAL)

\* the backup probe answered 500 and CAPTIVE_PORTAL was returned
C10_Witness ==
  /\ pc = "switch"
  /\ PrimaryUndecided
  /\ backup.kind = "response"
  /\ backup.status = 500
  /\ status = CAPTIVE_PORTAL

\* C11: a cycle makes no call but that of its classification: at most one
\* connectToWifi and one authenticate() call, connectToWifi only in a cycle
\* classified OFFLINE, authenticate() only in one classified CAPTIVE_PORTAL;
\* a cycle that ends without a caught error has made exactly the one call
\* of its status (none when ONLINE), so that a run of failure cycles has made
\* as many calls as it has cycles.
C11_DispatchMatchesStatus ==
  /\ joinCalls <= 1
  /\ authCalls <= 1
  /\ joinCalls = 1 => (classified /\ status = OFFLINE /\ authCalls = 0)
  /\ authCalls = 1 => (classified /\ status = CAPTIVE_PORTAL /\ joinCalls = 0)
  /\ (pc = "sleep" /\ classified /\ ~caught)
       => /\ joinCalls = (IF status = OFFLINE THEN 1 ELSE 0)
          /\ authCalls = (IF status = CAPTIVE_PORTAL THEN 1 ELSE 0)
          /\ runJoins + runAuths = failRun

\* OFFLINE, OFFLINE, CAPTIVE_PORTAL were classified and handled: two
\* connectToWifi calls and one authenticate() call were made
C11_Witness ==
  /\ pc = "sleep"
  /\ cycles = 3
  /\ failRun = 3
  /\ status = CAPTIVE_PORTAL
  /\ prevStatus = OFFLINE
  /\ runJoins = 2
  /\ runAuths = 1
  /\ authCalls = 1
  /\ joinCalls = 0

\* C12: connectionAttempts counts the failure cycles in a row, whichever
\* of OFFLINE and CAPTIVE_PORTAL each was: when authenticate() or
\* connectToWifi is called in the n-th such cycle since the counter was 0,
\* n <= MAX_CONNECTION_ATTEMPTS, the counter is n (3 after OFFLINE, OFFLINE,
\* CAPTIVE_PORTAL); past the ceiling the count goes on from 1.
C12_CounterCountsAllFailures ==
  (pc \in {"a_log", "join"})
    => /\ failRun >= 1
       /\ failRun <= MAX_CONNECTION_ATTEMPTS => connectionAttempts = failRun
       /\ connectionAttempts = ((failRun - 1) % MAX_CONNECTION_ATTEMPTS) + 1

\* authenticate() is called in the third failure cycle, after two cycles
\* classified OFFLINE
C12_Witness ==
  /\ pc = "a_log"
  /\ cycles = 3
  /\ failRun = 3
  /\ runJoins = 2
  /\ prevStatus = OFFLINE
  /\ status = CAPTIVE_PORTAL
  /\ connectionAttempts = 3

\* a cycle classified OFFLINE or CAPTIVE_PORTAL has ended without a caught
\* error
FailureCycleEnded ==
  /\ pc = "sleep"
  /\ classified
  /\ ~caught
  /\ status \in {OFFLINE, CAPTIVE_PORTAL}

C14_OneCooldownPastCeiling ==
  /\ cooldowns <= 1
  /\ cooldowns = 1 => attAtStart + 1 > MAX_CONNECTION_ATTEMPTS
  /\ pc \in {"portal_cooldown", "offline_cooldown"}
       => /\ cooldowns = 1
          /\ joinCalls = 0
          /\ authCalls = 0
          /\ connectionAttempts > MAX_CONNECTION_ATTEMPTS
  /\ (joinCalls = 1 \/ authCalls = 1)
       => cooldowns = (IF attAtStart + 1 > MAX_CONNECTION_ATTEMPTS THEN 1
                                                                  ELSE 0)
  /\ (pc \in {"a_log", "join"} /\ cooldowns = 1) => connectionAttempts = 1

\* connectToWifi is called in a fourth failure cycle, after the pause
C14_Witness ==
  /\ pc = "join"
  /\ attAtStart = MAX_CONNECTION_ATTEMPTS
  /\ cooldowns = 1
  /\ joinCalls = 1
  /\ connectionAttempts = 1

\* C15: the pacing sleep of a cycle is LOGIN_INTERVAL_MS less the time the
\* cycle took, and 0 when that would be negative; so the time from the
\* start of a cycle to the start of the next, duration + sleepTime, is
\* LOGIN_INTERVAL_MS when the cycle took at most that long, and the time
\* it took otherwise.
C15_PacingFillsInterval ==
  pc = "sleeping"
    => /\ sleepTime >= 0
       /\ sleepTime = (IF duration < LOGIN_INTERVAL_MS
                         THEN LOGIN_INTERVAL_MS - duration
                         ELSE 0)
       /\ duration + sleepTime = (IF duration <= LOGIN_INTERVAL_MS
                                    THEN LOGIN_INTERVAL_MS
                                    ELSE duration)

\* a cycle that took longer than the interval is followed by no sleep
C15_Witness ==
  /\ pc = "sleeping"
  /\ duration > LOGIN_INTERVAL_MS
  /\ sleepTime = 0

\* C16: cycles do not overlap: never more than one probe call and one
\* authenticate() call are in progress, and never both at once; a
\* connectToWifi or authenticate() call is made only after the cycle's
\* classification has returned; and a classification is started only from
\* the wait before the loop or from the finished pacing sleep of the
\* previous cycle.
C16_CyclesNeverOverlap ==
  /\ [](/\ probesInFlight \in {0, 1}
        /\ authsInFlight \in {0, 1}
        /\ probesInFlight + authsInFlight <= 1
        /\ (authsInFlight = 1 \/ joinCalls = 1 \/ authCalls = 1)
             => (classified /\ probesInFlight = 0)
        /\ pc \in {"check", "backup"}
             => (probesInFlight = 1 /\ ~classified /\ authsInFlight = 0))
  /\ [][pc' = "check" => pc \in {"init_wait", "sleeping"}]_vars

\* the probe of the cycle after a CAPTIVE_PORTAL cycle is in progress
C16_Witness ==
  /\ pc = "check"
  /\ cycles >= 2
  /\ prevStatus = CAPTIVE_PORTAL
  /\ probesInFlight = 1
  /\ authsInFlight = 0

\* C17: whatever sequence of launchBrowser and closeBrowser calls is made,
\* at most one browser is open; puppeteer.launch is called only when no
\* browser is open and no reference is held, a session held at the call of
\* launchBrowser having been closed first; and an open browser is the one
\* the reference names or the one being closed.
C17_AtMostOneBrowser ==
  /\ Cardinality(openBrowsers) <= 1
  /\ pc = "bm_launching" => (openBrowsers = {} /\ browserInstance = 0)
  /\ openBrowsers \subseteq {browserInstance, closing}

\* launchBrowser was called with a session held and has returned: the new
\* browser is the only one open
C17_Witness ==
  /\ pc = "bm_idle"
  /\ replaced # 0
  /\ browserInstance # 0
  /\ openBrowsers = {browserInstance}

\* C18: fillAndSubmitForm returns true exactly when el.click() ran on a
\* submit control, whichever of the four fields were filled.
C18_TrueIffSubmitClicked ==
  pc = "f_returned" => (formResult = "true" <=> clicked)

\* no field was found, a submit control was clicked, and true was returned
C18_Witness ==
  /\ pc = "f_returned"
  /\ formFieldsFound = {}
  /\ clicked
  /\ formResult = "true"

\* fillAndSubmitForm was called in this authenticate() and reported that no
\* submit control was activated
NoSubmitActivated ==
  /\ faults \cap {"launch", "page"} = {}
  /\ ~formSubmitted

\* C19 (as claimed): authenticate() returns false exactly when no submit
\* control could be activated on the page; no failure of another phase
\* makes it return false.
C19_FalseOnlyWithoutSubmitAsClaimed ==
  pc = "auth_ret" => (~success <=> NoSubmitActivated)

\* C19 (amended): authenticate() returns true exactly when
\* fillAndSubmitForm activated a submit control; it returns false when none
\* could be activated and also when the browser launch or the page
\* creation failed; a failed navigation, screenshot or close does not
\* change the result.
C19_TrueIffFormSubmitted ==
  pc = "auth_ret"
    => /\ success <=> formSubmitted
       /\ ~success <=> (NoSubmitActivated
                          \/ faults \cap {"launch", "page"} # {})
       /\ faults \cap {"launch", "page"} # {} => ~success

\* authenticate() returns false after puppeteer.launch was rejected
C19_Witness ==
  /\ pc = "auth_ret"
  /\ "launch" \in faults
  /\ ~success
  /\ ~formSubmitted

\* C20: the monitoring loop runs only after init() returned true with the
\* configuration and the authenticator set; while that is not so, no
\* classification, connectToWifi or authenticate() call has been made and
\* no browser launched; startApp ends in process.exit(1) after a failed
\* init(), and startMonitoring returns before the loop on an App that is
\* not initialized.
C20_NoLoopWithoutInit ==
  /\ pc \notin PreLoopPcs
       => (initialized /\ configLoaded /\ authenticatorCreated)
  /\ ~initialized
       => /\ pc \in PreLoopPcs
          /\ cycles = 0
          /\ probesInFlight = 0
          /\ authsInFlight = 0
          /\ runJoins = 0
          /\ runAuths = 0
          /\ openBrowsers = {}
  /\ pc = "exit1" => ~initialized
  /\ pc = "sm_returned" => ~(configLoaded /\ authenticatorCreated)
  /\ pc = "start_monitoring"
       => (initialized \/ ~(configLoaded /\ authenticatorCreated))

\* init() failed after the configuration was loaded and startApp has
\* called process.exit(1)
C20_Witness ==
  /\ pc = "exit1"
  /\ ~initialized
  /\ configLoaded
  /\ cycles = 0

\* C21 (as claimed): consecutiveActiveConnections is incremented in every
\* ONLINE cycle: a cycle classified ONLINE that ends without a caught
\* rejection ends with the counter one above its value when the cycle
\* began, so that k consecutive ONLINE cycles leave it at k, beyond the
\* silent-mode threshold as well.
C21_IncrementedEveryOnlineCycle ==
  (pc = "sleep" /\ classified /\ status = ONLINE /\ ~caught)
    => consecutiveActiveConnections = consAtStart + 1

\* the points between two cycles of the loop: before the first cycle, and
\* from the end of the try / catch statement to the end of the pacing sleep
CycleBoundaries == {"init_wait", "sleep", "sleeping"}

\* C22 (as claimed): at every cycle boundary, connectionAttempts > 0 if and
\* only if consecutiveActiveConnections = 0.
C22_ExactlyOneAtEveryBoundaryAsClaimed ==
  pc \in CycleBoundaries
    => (connectionAttempts > 0 <=> consecutiveActiveConnections = 0)

\* C22 (amended): at the end of every cycle that classified the connection
\* and ran its handler without a caught error, connectionAttempts > 0 if
\* and only if consecutiveActiveConnections = 0; at the other boundaries
\* (before the first classification, after a caught error) the two are
\* never both positive, and connectionAttempts is 0 after a caught error.
C22_ExactlyOneAfterHandledCycle ==
  pc \in CycleBoundaries
    => /\ (classified /\ ~caught)
            => (connectionAttempts > 0 <=> consecutiveActiveConnections = 0)
       /\ caught => connectionAttempts = 0
       /\ connectionAttempts = 0 \/ consecutiveActiveConnections = 0

\* an ONLINE cycle that follows an OFFLINE cycle has ended: the failure
\* count is back to 0 and the ONLINE count is 1
C22_Witness ==
  /\ pc = "sleep"
  /\ classified
  /\ ~caught
  /\ status = ONLINE
  /\ prevStatus = OFFLINE
  /\ connectionAttempts = 0
  /\ consecutiveActiveConnections = 1

\* C23: the candidates are navigated in list order, each at most once; the
\* first landing detected as a portal ends the scan, so that a detected
\* portal is the last candidate navigated, no candidate after it is ever
\* navigated, and the page handed to fillAndSubmitForm shows that landing;
\* a landing on another host is always detected. So when only the third
\* candidate redirects to another host, exactly three candidates are
\* navigated and the fill runs on the third one's landing.
C23_FirstPortalLandingWins ==
  /\ [](/\ Len(navLog) <= NumTestUrls
        /\ \A j \in 1..Len(navLog) :
             /\ navLog[j].url = j
             /\ navLog[j].report = "portal" => j = Len(navLog)
             /\ navLog[j].crossHost => navLog[j].report = "portal"
        /\ portalUrlFound <=> /\ navLog # <<>>
                              /\ navLog[Len(navLog)].report = "portal"
        /\ portalUrlFound => (page = Len(navLog) /\ pc \notin {"n_goto", "n_detect"})
        /\ pc \in {"n_goto", "n_detect"} => urlIdx = Len(navLog) + 1)
  /\ [][portalUrlFound => (navLog' = navLog /\ page' = page)]_vars

\* fillAndSubmitForm is called on the landing of the third candidate, the
\* only one that led to another host, after the first two candidates loaded
\* and were logged as not being a portal
C23_Witness ==
  /\ pc = "a_fill"
  /\ Len(navLog) = 3
  /\ navLog[1].report \in {"seemsOnline", "notIdentified"}
  /\ navLog[2].report \in {"seemsOnline", "notIdentified"}
  /\ navLog[3].crossHost
  /\ navLog[3].report = "portal"
  /\ portalUrlFound
  /\ page = 3

\* the selectors of a field that resolve to an element of the page
Resolving(field, pg) ==
  { k \in 1..Len(FieldSelectors[field]) :
      Query(FieldSelectors[field][k], pg) # 0 }

\* the first selector of a field, in list order, that resolves to an
\* element of the page (0: none does)
FirstResolving(field, pg) ==
  IF Resolving(field, pg) = {}
    THEN 0
    ELSE CHOOSE k \in Resolving(field, pg) :
           \A other \in Resolving(field, pg) : k <= other

\* C24 (as claimed): fillField queries the selectors of its field in list
\* order and stops at the first one that resolves to an existing element:
\* that element is typed into and no later selector is queried.
C24_StopsAtFirstExistingAsClaimed ==
  \A n \in 1..Len(fieldLog) :
    LET field == FieldNames[n]
        first == FirstResolving(field, dom)
    IN first # 0
         => /\ fieldLog[n].queried = first
            /\ fieldLog[n].target = Query(FieldSelectors[field][first], dom)

\* C24 (amended): fillField queries the selectors of its field in list
\* order and stops at the first one whose element it could click, clear
\* and type into: that element alone is typed into and no later selector is
\* queried; a selector that resolves to nothing, or to an element whose
\* click rejects, or whose query itself rejects, is passed over, and when
\* none is left the field is reported not found.
C24_StopsAtFirstFilled ==
  \A n \in 1..Len(fieldLog) :
    LET field == FieldNames[n]
        sels == FieldSelectors[field]
        walk == fieldLog[n]
        usable == { k \in Resolving(field, dom) :
                      /\ k # walk.fault
                      /\ dom[Query(sels[k], dom)].interactable }
    IN /\ usable = {} => (walk.target = 0 /\ walk.queried = Len(sels))
       /\ usable # {}
            => /\ walk.queried \in usable
               /\ \A k \in usable : walk.queried <= k
               /\ walk.target = Query(sels[walk.queried], dom)
       /\ walk.target \notin walk.rejected
       /\ (field \in formFieldsFound) <=> (walk.target # 0)

\* the first selector of the id number field resolves to an element that
\* cannot be clicked, and the field was typed into the element that a
\* later selector resolves to
C24_Witness ==
  /\ Len(fieldLog) >= 1
  /\ Len(dom) = 2
  /\ dom[1].id = "idnumber"
  /\ ~dom[1].interactable
  /\ fieldLog[1].rejected = {1}
  /\ fieldLog[1].queried = Len(FieldSelectors.idnumber)
  /\ fieldLog[1].target = 2

\* C25 (as claimed): on a page whose only input element is matched by
\* #idnumber (and can be typed into) and on which a submit control was
\* clicked, fillAndSubmitForm returns true having filled the id number
\* field only: name, surname and birth year are reported not found.
C25_LoneIdFieldAsClaimed ==
  (/\ pc = "f_returned"
   /\ Len(dom) = 1
   /\ dom[1].id = "idnumber"
   /\ dom[1].interactable
   /\ clicked)
    => /\ formResult = "true"
       /\ formFieldsFound = {"idnumber"}
       /\ \A n \in 2..Len(FieldNames) : fieldLog[n].target = 0

\* the status a probe of candidate i answers when nothing intercepts it
ExpectedStatus(i) == IF ExpectsNoContent(i) THEN 204 ELSE 200

\* C26 (as claimed): a landing is treated as a portal whenever the final
\* URL's host differs from the requested one, or the final URL contains
\* "login", "auth" or "hotspot", or the status differs from the one
\* expected of that candidate, also when the final URL is the requested
\* URL.
C26_PortalLikeAsClaimed ==
  (/\ landing # NoLanding
   /\ pc # "n_detect"
   /\ navLog # <<>>)
    => LET last == navLog[Len(navLog)]
       IN (\/ landing.crossHost
           \/ landing.token
           \/ landing.status # ExpectedStatus(last.url))
            => (last.report = "portal" /\ portalUrlFound)

\* the phases this authenticate() call has entered
PhasesEntered == { phases[n] : n \in 1..Len(phases) }

\* C27: a navigation error is logged and the scan goes on with the next
\* candidate: it never takes the call to authenticate's catch block. The
\* fill is reached only after a detected portal or after the last
\* candidate, and it is reached also when every candidate failed or none
\* was detected as a portal, on the page as the scan left it; the value
\* returned is then true exactly when fillAndSubmitForm activated a submit
\* control.
C27_NavigationErrorsOnlyAdvance ==
  /\ [](/\ pc # "a_catch"
        /\ (navLog # <<>> /\ navLog[Len(navLog)].report = "error"
              /\ Len(navLog) < NumTestUrls)
             => (pc \in {"n_goto", "n_detect"} /\ urlIdx = Len(navLog) + 1)
        /\ "FILL" \in PhasesEntered
             <=> (portalUrlFound \/ Len(navLog) = NumTestUrls)
        /\ pc = "auth_ret"
             => ("FILL" \in PhasesEntered /\ (success <=> formSubmitted)))
  /\ [][ "FILL" \in PhasesEntered => page' = page ]_vars

\* every candidate failed to load, the fill ran all the same, a submit
\* control was activated and authenticate() returns true
C27_Witness ==
  /\ pc = "auth_ret"
  /\ Len(navLog) = NumTestUrls
  /\ \A j \in 1..Len(navLog) : navLog[j].report = "error"
  /\ ~portalUrlFound
  /\ formSubmitted
  /\ success

\* the place of a phase in PhaseOrder
PhaseRank(p) == CHOOSE n \in 1..Len(PhaseOrder) : PhaseOrder[n] = p

\* C28: the phases an authenticate() call enters follow the order LAUNCH,
\* NAVIGATE, DETECT, FILL, SETTLE, CLOSE, the scan alternating between
\* NAVIGATE and DETECT once per candidate: the call starts with LAUNCH,
\* never enters a phase that comes before one it has left, may leave
\* phases out after a failure, and has entered CLOSE, as its last phase,
\* when it returns; after CLOSE no other phase is entered.
C28_PhasesInOrderCloseLast ==
  /\ [](/\ \A i, j \in 1..Len(phases) :
             i < j => PhaseRank(phases[i]) < PhaseRank(phases[j])
        /\ phases # <<>> => phases[1] = "LAUNCH"
        /\ PhaseOf(pc) # "NONE"
             => /\ PhaseOf(pc) \in PhasesEntered
                /\ \/ phases[Len(phases)] = PhaseOf(pc)
                   \/ {phases[Len(phases)], PhaseOf(pc)} \subseteq ScanPhases
        /\ pc = "auth_ret"
             => (phases # <<>> /\ phases[Len(phases)] = "CLOSE"))
  /\ [][ (phases # <<>> /\ phases[Len(phases)] = "CLOSE")
           => (phases' = phases \/ phases' = <<>>) ]_vars

\* authenticate() returns after puppeteer.launch was rejected: LAUNCH was
\* followed at once by CLOSE
C28_Witness ==
  /\ pc = "auth_ret"
  /\ "launch" \in faults
  /\ phases = <<"LAUNCH", "CLOSE">>

C30_FailedCloseClearsReference ==
  /\ [](/\ closeRejections = 0
        /\ lastCloseThrew => (browserInstance = 0 /\ closing = 0)
        /\ pc = "bm_launching" => browserInstance = 0)
  /\ [][ (lastCloseThrew /\ pc = "bm_idle" /\ pc' # "bm_idle")
           => (pc' = "bm_launching" /\ replaced' = 0) ]_vars

\* launchBrowser was called after a closeBrowser whose close() rejected:
\* it held no session and has called puppeteer.launch
C30_Witness ==
  /\ pc = "bm_launching"
  /\ lastCloseThrew
  /\ replaced = 0
  /\ browserInstance = 0
  /\ openBrowsers = {}

\* the selectors of a walk of fillField after the selector e that resolve
\* to an element which can be typed into and whose query does not reject
UsableAfter(walk, e) ==
  LET sels == FieldSelectors[walk.field]
  IN { k \in (e + 1)..Len(sels) :
         /\ k # walk.fault
         /\ Query(sels[k], dom) # 0
         /\ dom[Query(sels[k], dom)].interactable }

\* C31: an error caught while a selector of a field is queried or its
\* element is clicked and typed into ends the try of that selector only:
\* the later selectors of the field are still tried (a later one that can
\* be filled is filled, and without one the list is tried to its end), the
\* four fields are attempted in the order idnumber, name, surname,
\* birthyear whatever happened in the fields before, and after the fourth
\* the search for a submit control starts with its first selector.
C31_SelectorErrorsSwallowed ==
  /\ [](/\ \A n \in 1..Len(fieldLog) :
             LET walk == fieldLog[n]
             IN /\ walk.field = FieldNames[n]
                /\ \A e \in walk.errors :
                     IF UsableAfter(walk, e) = {}
                       THEN /\ walk.target = 0
                            /\ walk.queried = Len(FieldSelectors[walk.field])
                       ELSE /\ walk.target # 0
                            /\ walk.queried \in UsableAfter(walk, e)
        /\ pc = "f_field" => Len(fieldLog) = fieldIdx - 1
        /\ pc = "f_submit" => (Len(fieldLog) = Len(FieldNames) /\ selIdx = 1))
  /\ [][ pc = "f_field"
           => /\ Len(fieldLog') = Len(fieldLog) + 1
              /\ IF fieldIdx < Len(FieldNames)
                   THEN pc' = "f_field" /\ fieldIdx' = fieldIdx + 1
                   ELSE pc' = "f_submit" /\ selIdx' = 1 ]_vars

\* the query of #idnumber rejected and the id number was typed through a
\* later selector; a later field met an element that could not be clicked;
\* all four fields were attempted and the submit search has started
C31_Witness ==
  /\ pc = "f_submit"
  /\ Len(fieldLog) = Len(FieldNames)
  /\ fieldLog[1].fault = 1
  /\ Query(FieldSelectors.idnumber[1], dom) # 0
  /\ fieldLog[1].target # 0
  /\ fieldLog[1].queried > 1
  /\ \E n \in 2..3 : fieldLog[n].rejected # {} /\ fieldLog[n].target = 0
  /\ fieldLog[4].target # 0

\* C32: a page event delivered while authenticate() is suspended, at any of
\* its steps from the first navigation to the end of close(), changes
\* nothing but the log: authenticate() stays where it was, the logger's
\* mode, the counters, the browser, the result so far and the phases
\* entered are as before; a call without a failing step and with a
\* submitted form still goes through all six phases, and the value
\* returned is still decided by the submit alone.
C32_PageEventsOnlyLog ==
  /\ [][ pageEvents' > pageEvents
           => UNCHANGED <<pc, appVars, browserVars, authVars, phases,
                          formSubmitted, loopError, caught, thrown>> ]_vars
  /\ [](pc = "auth_ret"
          => /\ "CLOSE" \in PhasesEntered
             /\ (faults = {} /\ formSubmitted) => phases = PhaseOrder
             /\ success <=> formSubmitted)

\* an event was delivered during an authenticate() call that went through
\* all its phases and returns true
C32_Witness ==
  /\ pc = "auth_ret"
  /\ pageEvents > 0
  /\ phases = PhaseOrder
  /\ success

\* C33: in an ONLINE cycle whose handler finds the logger silent, the
\* handler returns at once: connectionAttempts, consecutiveActiveConnections
\* and successfulConnections are what they were when the cycle began,
\* lastSuccessTime is not assigned, neither connectToWifi nor authenticate()
\* is called, and the cycle goes on to its pacing sleep.
C33_SilentOnlineCycleChangesNothing ==
  silentReturn
    => /\ pc \in {"sleep", "sleeping"}
       /\ status = ONLINE
       /\ connectionAttempts = attAtStart
       /\ consecutiveActiveConnections = consAtStart
       /\ successfulConnections = succAtStart
       /\ ~stamped
       /\ joinCalls = 0
       /\ authCalls = 0
       /\ authsInFlight = 0

\* the sixth of six ONLINE cycles: the logger was silent when the handler
\* was called, and the counters stand where the fifth cycle left them
C33_Witness ==
  /\ silentReturn
  /\ pc = "sleeping"
  /\ cycles = 6
  /\ consecutiveActiveConnections = CONSECUTIVE_CHECKS_FOR_SILENT
  /\ successfulConnections = CONSECUTIVE_CHECKS_FOR_SILENT

\* C34: connectionAttempts is at least 1 and at most MAX_CONNECTION_ATTEMPTS
\* whenever connectToWifi or authenticate() is called, and stays so until
\* the call has returned; it is never below 0 nor above
\* MAX_CONNECTION_ATTEMPTS + 1.
C34_AttemptsWithinCeilingAtCall ==
  /\ [](/\ connectionAttempts \in 0..(MAX_CONNECTION_ATTEMPTS + 1)
        /\ (pc = "join" \/ authsInFlight > 0)
             => connectionAttempts \in 1..MAX_CONNECTION_ATTEMPTS)
  /\ [][ (joinCalls' > joinCalls \/ authCalls' > authCalls)
           => connectionAttempts' \in 1..MAX_CONNECTION_ATTEMPTS ]_vars

\* the fourth failure cycle in a row: the counter went past the ceiling,
\* the long pause was made, and authenticate() is called with the counter
\* at 1
C34_Witness ==
  /\ pc = "a_log"
  /\ authsInFlight = 1
  /\ attAtStart = MAX_CONNECTION_ATTEMPTS
  /\ cooldowns = 1
  /\ connectionAttempts = 1

\* C35: whenever the logger is silent, consecutiveActiveConnections is at
\* least CONSECUTIVE_CHECKS_FOR_SILENT and connectionAttempts is 0.
C35_SilentImpliesCounters ==
  silentMode
    => /\ consecutiveActiveConnections >= CONSECUTIVE_CHECKS_FOR_SILENT
       /\ connectionAttempts = 0

\* silent mode entered in the sixth cycle, by the fifth ONLINE check in a
\* row after a first cycle that was not counted as one
C35_Witness ==
  /\ silentMode
  /\ pc = "sleeping"
  /\ cycles = 6
  /\ ~silentReturn
  /\ consecutiveActiveConnections = CONSECUTIVE_CHECKS_FOR_SILENT
  /\ successfulConnections = CONSECUTIVE_CHECKS_FOR_SILENT
  /\ connectionAttempts = 0

\* the cycles of a run of failure cycles in which the long pause is made:
\* the 4th and every third one after it
CooldownCycle(n) == n > 1 /\ n % MAX_CONNECTION_ATTEMPTS = 1

\* C36: in a run of OFFLINE / CAPTIVE_PORTAL cycles that began with
\* connectionAttempts at 0 and in which no error was caught, the long pause
\* is made in the 4th, 7th, 10th ... cycle and in no other, and
\* connectToWifi or authenticate() is called once in every cycle of the
\* run, the cycles with a pause included.
C36_CooldownEveryThirdCycle ==
  /\ (cooldowns = 1 /\ ~caught) => CooldownCycle(failRun)
  /\ (joinCalls + authCalls = 1 /\ ~caught)
       => /\ failRun >= 1
          /\ cooldowns = 1 <=> CooldownCycle(failRun)
          /\ runJoins + runAuths = failRun
  /\ (pc \in {"sleep", "sleeping"} /\ failRun >= 1 /\ ~caught)
       => (joinCalls + authCalls = 1 /\ runJoins + runAuths = failRun)

\* the seventh failure cycle in a row makes the second long pause of the
\* run and then its call, the seventh of the run
C36_Witness ==
  /\ failRun = 7
  /\ cycles = 7
  /\ cooldowns = 1
  /\ pc \in {"join", "a_log"}
  /\ connectionAttempts = 1
  /\ runJoins + runAuths = 7

\* C37 (as claimed): in one fillAndSubmitForm call no element of the page
\* is typed into for more than one of the four fields.
C37_NoElementTypedTwiceAsClaimed ==
  \A n, other \in 1..Len(fieldLog) :
    (n # other /\ fieldLog[n].target # 0)
      => fieldLog[n].target # fieldLog[other].target

\* the closeBrowser calls that run concurrently have all returned
AllClosersDone == \A c \in Closers : closers[c].at = "done"

\* C38: with several closeBrowser calls in progress at once, under every
\* interleaving of their steps and whether close() resolves or rejects in
\* each, no call rejects to its caller, every call comes to its end
\* through the finally block, and once all have returned the reference is
\* null and no browser is left on which close() was not called.
C38_ConcurrentClosesTolerated ==
  /\ closeRejections = 0
  /\ \A c \in Closers : closers[c].at # "rejected"
  /\ (\E c \in Closers : closers[c].at \in {"finally", "done"})
       => browserInstance = 0
  /\ AllClosersDone => (browserInstance = 0 /\ openBrowsers = {})

\* two calls found the same session; the first one's finally block had
\* cleared the reference when the second came to call close(), which threw
\* inside the try block; both calls have returned
C38_Witness ==
  /\ AllClosersDone
  /\ \E c, other \in Closers :
       /\ c # other
       /\ closers[c].target # 0
       /\ closers[other].target = 0
  /\ browserInstance = 0

\* what a call of log made while silent with an error argument writes
ErrorExitEntries(call) ==
  << LogEntry(call.message, "undefined", call.level),
     LogEntry("Error occurred", call.error, call.level) >>

\* C39: a call of Logger.log returns, and never has more than two
\* invocations in progress. Made with an error argument while the logger
\* is silent, it calls itself once, writes the original message and then
\* one entry with the error, and the logger is not silent when it
\* returns; made without an error while silent, it writes no entry and the
\* logger is still silent when it returns.
C39_LogTerminates ==
  /\ [](/\ Len(logFrames) <= 2
        /\ logRecursions <= 1
        /\ pc = "l_returned" =>
             /\ silentMode = LogSilent(calledSilent, Truthy(logCall.error))
             /\ (calledSilent /\ Truthy(logCall.error)) =>
                  /\ logRecursions = 1
                  /\ logEntries = ErrorExitEntries(logCall)
                  /\ ~silentMode
             /\ (calledSilent /\ ~Truthy(logCall.error)) =>
                  /\ logRecursions = 0
                  /\ logEntries = <<>>
                  /\ fileLines = 0
                  /\ silentMode)
  /\ ((pc = "l_run") ~> (pc = "l_returned"))

\* a call made with an error while silent has returned after one recursion
\* and two entries
C39_Witness ==
  /\ pc = "l_returned"
  /\ calledSilent
  /\ Truthy(logCall.error)
  /\ logRecursions = 1
  /\ Len(logEntries) = 2
  /\ ~silentMode

\* C40 (as claimed): in the monitor loop of src/index.ts an ONLINE cycle
\* increments successfulConnections only if the classification before it
\* was not ONLINE or there was none, even when a log call has carried an
\* error argument in the cycle; no other cycle increments it.
C40_LegacySuccessOnlyOnReacquisitionAsClaimed ==
  (pc = "m_sleep" /\ successfulConnections # succAtStart)
    => (status = ONLINE /\ prevStatus # ONLINE)

====
